---- MODULE Spec2Model ----
(***************************************************************************)
(* Model of the Pimcore -> Shopify / filePro product export agent.         *)
(*                                                                         *)
(*   shopify_client.py  ShopifyClient.execute_graphql, upsert_product,     *)
(*                      sync_variant and the metafield helpers             *)
(*   pimcore_client.py  PimcoreClient.fetch_products                       *)
(*   models.py          the PimcoreProduct transforms                      *)
(*   sync_engine.py     SyncEngine.run and its nested helpers              *)
(*   0_main.py          main                                               *)
(*                                                                         *)
(* The program is single threaded.  A method that talks to the remote API  *)
(* is modelled as a sequence of steps, one per HTTP request it sends; the  *)
(* remote answer of each request is chosen nondeterministically.           *)
(***************************************************************************)
EXTENDS Integers, Sequences, FiniteSets, TLC

VARIABLES
    op,          \* the method under execution: "idle", "gql", "upsert", "variant", "fetch",
                 \* "record", "helper", "run", "main"
    gqlPc,       \* execute_graphql: "idle" | "running" | "returned"
    gqlCall,     \* execute_graphql: the query of the call in progress
    gqlAttempt,  \* execute_graphql: the loop variable `attempt`
    gqlReqs,     \* execute_graphql: what every request sent by this call met
    gqlWaits,    \* execute_graphql: the seconds of every time.sleep of this call
    gqlResult,   \* execute_graphql: the returned payload
    sent,        \* every remote call issued by the method under execution, in order
    replies,     \* what each of those calls returned to the method, in order
    upPc,        \* upsert_product: "idle" | "create" | "lookup" | "update" | "done"
    product_data,\* upsert_product: the caller's field dictionary
    upCreate,    \* upsert_product: the locals `product_create` / `errors`
    upGid,       \* upsert_product: the local `gid`
    upResult,    \* upsert_product: the returned value
    sv,          \* sync_variant: its arguments, locals, position and outcome
    pf,          \* fetch_products: the response it met and its outcome
    pp,          \* PimcoreProduct: the method evaluated, the record's fields, and the
                 \* result: `value` a number, `text` a string, `chars` a string held
                 \* as its characters
    helper,      \* SyncEngine.run: the nested helper evaluated, its arguments, its result
    eng,         \* SyncEngine.run: its locals, position, the output file, the sleeps
    mn           \* main: the arguments and environment, its position, the objects
                 \* constructed, the calls made on them and how it ended

gqlVars == <<gqlPc, gqlCall, gqlAttempt, gqlReqs, gqlWaits, gqlResult>>
upVars  == <<upPc, product_data, upCreate, upGid, upResult>>
xformVars == <<pp, helper, eng, mn>>
vars    == <<op, gqlVars, sent, replies, upVars, sv, pf, xformVars>>

----------------------------------------------------------------------------
(* The remote GraphQL API as execute_graphql sees it *)

\* range(3)
MaxAttempts == 3

\* (attempt + 1) * 5
ThrottleWaitUnit == 5

\* (attempt + 1) * 2
TransportWaitUnit == 2

\* The entries of a payload's "errors" list: with extensions.code THROTTLED,
\* with another code, without extensions.
ThrottledErr == [code |-> "THROTTLED", message |-> "Throttled"]
OtherErr     == [code |-> "OTHER",     message |-> "Field does not exist"]
PlainErr     == [code |-> "NONE",      message |-> "Internal error"]

\* The "errors" key of a response: absent, or present with a list of errors.
ErrorShapes ==
    { [errorsKey |-> FALSE, errors |-> <<>>],
      [errorsKey |-> TRUE,  errors |-> <<>>],
      [errorsKey |-> TRUE,  errors |-> <<OtherErr>>],
      [errorsKey |-> TRUE,  errors |-> <<PlainErr>>],
      [errorsKey |-> TRUE,  errors |-> <<ThrottledErr>>],
      [errorsKey |-> TRUE,  errors |-> <<OtherErr, ThrottledErr>>] }

NullBody == [kind |-> "null"]

NoPayload == [errorsKey |-> FALSE, errors |-> <<>>, body |-> [kind |-> "unset"]]

\* A request that raises requests.RequestException: no response at all
\* (connection error, timeout), or raise_for_status on a 401 / another status.
TransportFailures == {"conn", "http401", "http500"}

\* any(err.get("extensions", {}).get("code") == "THROTTLED" for err in errors)
IsThrottledOnAnyError(data) == Len(data.errors) > 0

IsThrottledFirstOnly(data) ==
    /\ Len(data.errors) > 0
    /\ data.errors[1].code = "THROTTLED"

IsThrottled(data) ==
    \E i \in 1..Len(data.errors) : data.errors[i].code = "THROTTLED"

\* wait = (attempt + 1) * 5
ThrottleWaitFlat(attempt) == ThrottleWaitUnit

ThrottleWait(attempt) == (attempt + 1) * ThrottleWaitUnit

\* time.sleep((attempt + 1) * 2)
TransportWaitFromZero(attempt) == attempt * TransportWaitUnit

TransportWait(attempt) == (attempt + 1) * TransportWaitUnit

\* {"errors": [{"message": "Max retries exceeded"}]}
MaxRetriesSaysRequestFailed ==
    [errorsKey |-> TRUE,
     errors    |-> << [code |-> "NONE", message |-> "Request failed"] >>,
     body      |-> NullBody]

MaxRetriesPayload ==
    [errorsKey |-> TRUE,
     errors    |-> << [code |-> "NONE", message |-> "Max retries exceeded"] >>,
     body      |-> NullBody]

\* {"errors": [{"message": f"Request failed: {str(e)}"}]}
RequestFailedPayload ==
    [errorsKey |-> TRUE,
     errors    |-> << [code |-> "NONE", message |-> "Request failed"] >>,
     body      |-> NullBody]

\* `if attempt == 2:  # Last attempt`
IsLastAttemptOffByOne(attempt) == attempt = MaxAttempts

IsLastAttempt(attempt) == attempt = 2

----------------------------------------------------------------------------
(* Python values *)

\* None, as a returned value or a JSON null where a string is expected
None == "None"

\* Product identifiers the remote store hands out
Gids == {"gid://shopify/Product/1", "gid://shopify/Product/2"}

\* Python truthiness of an optional string
Truthy(s) == s # None /\ s # ""

----------------------------------------------------------------------------
(* Response bodies, by query *)

\* userErrors messages, as character sequences
MsgIsTaken == <<"i", "s", " ", "t", "a", "k", "e", "n">>
MsgTAKEN   == <<"T", "A", "K", "E", "N">>
MsgBlank   == <<"b", "l", "a", "n", "k">>

Messages == {MsgIsTaken, MsgTAKEN, MsgBlank}

\* longest userErrors list a response carries
MaxUserErrors == 2

SeqsUpTo(S, n) == UNION { [1..k -> S] : k \in 0..n }

UserErrorLists == SeqsUpTo(Messages, MaxUserErrors)

\* str.lower() on one character
LowerChar(c) ==
    CASE c = "A" -> "a"
      [] c = "B" -> "b"
      [] c = "C" -> "c"
      [] c = "D" -> "d"
      [] c = "E" -> "e"
      [] c = "F" -> "f"
      [] c = "G" -> "g"
      [] c = "H" -> "h"
      [] c = "I" -> "i"
      [] c = "J" -> "j"
      [] c = "K" -> "k"
      [] c = "L" -> "l"
      [] c = "M" -> "m"
      [] c = "N" -> "n"
      [] c = "O" -> "o"
      [] c = "P" -> "p"
      [] c = "Q" -> "q"
      [] c = "R" -> "r"
      [] c = "S" -> "s"
      [] c = "T" -> "t"
      [] c = "U" -> "u"
      [] c = "V" -> "v"
      [] c = "W" -> "w"
      [] c = "X" -> "x"
      [] c = "Y" -> "y"
      [] c = "Z" -> "z"
      [] OTHER   -> c

Lower(m) == [i \in 1..Len(m) |-> LowerChar(m[i])]

\* needle in haystack
Contains(hay, needle) ==
    \E i \in 1..(Len(hay) - Len(needle) + 1) :
        SubSeq(hay, i, i + Len(needle) - 1) = needle

\* any("taken" in err.get("message", "").lower() for err in errors)
HandleTakenCaseSensitive(errors) ==
    \E i \in 1..Len(errors) : Contains(errors[i], <<"t", "a", "k", "e", "n">>)

HandleTaken(errors) ==
    \E i \in 1..Len(errors) : Contains(Lower(errors[i]), <<"t", "a", "k", "e", "n">>)

\* data.productCreate of a productCreate response
ProductCreates ==
    { [isNull |-> TRUE, userErrors |-> <<>>, product |-> None] }
    \cup [isNull : {FALSE}, userErrors : UserErrorLists, product : {None, ""} \cup Gids]

\* data.productUpdate of a productUpdate response
ProductUpdates ==
    { [isNull |-> TRUE, userErrors |-> <<>>] }
    \cup [isNull : {FALSE}, userErrors : {<<>>, <<MsgBlank>>}]

\* Namespaces and keys of variant metafields, as character sequences
NsGoogleShopping ==
    <<"m", "m", "-", "g", "o", "o", "g", "l", "e", "-",
      "s", "h", "o", "p", "p", "i", "n", "g">>
NsGoogle      == <<"G", "o", "o", "g", "l", "e">>
NsCustom      == <<"c", "u", "s", "t", "o", "m">>
KeyMpn        == <<"m", "p", "n">>
KeyMPN        == <<"M", "P", "N">>
KeyGoogleMpn  == <<"g", "o", "o", "g", "l", "e", "_", "m", "p", "n">>
KeyVendorPart == <<"v", "e", "n", "d", "o", "r", "_", "p", "a", "r", "t">>

\* Metafields a variant of the store may carry.
Metafields ==
    { [namespace |-> NsCustom, key |-> KeyMPN],
      [namespace |-> NsGoogle, key |-> KeyMpn],
      [namespace |-> NsCustom, key |-> KeyGoogleMpn],
      [namespace |-> NsCustom, key |-> KeyVendorPart] }

\* most metafields a variant carries
MaxMetafields == 2

MetafieldLists == SeqsUpTo(Metafields, MaxMetafields)

\* mpn_metafield_info = None
NoInfo == [namespace |-> <<>>, key |-> <<>>]

\* The variant identifiers of the store, and the one of the synced product.
OwnVariantId == 7001
OtherVariantId == 7002

\* f"gid://shopify/ProductVariant/{v_id}"
VariantGid(v_id) == "gid://shopify/ProductVariant/" \o ToString(v_id)

\* most variants the search over other products returns
MaxSearchVariants == 2

SearchLists ==
    SeqsUpTo({VariantGid(OwnVariantId), VariantGid(OtherVariantId), None},
             MaxSearchVariants)

\* The answers to the REST request GET products/{p_id}/variants.json: the
\* request raises RequestException, or the document has no "variants" key, an
\* empty list, a first variant without "id", or a first variant with one.
GetOutcomes ==
    { [kind |-> "failure", v_id |-> 0],
      [kind |-> "nokey",   v_id |-> 0],
      [kind |-> "empty",   v_id |-> 0],
      [kind |-> "noid",    v_id |-> 0],
      [kind |-> "variant", v_id |-> OwnVariantId] }

\* The answers to the REST request PUT variants/{v_id}.json.
PutOutcomes == {"ok", "failure"}

\* The values of the argument `mpn`.
MpnInputs == {None, "", "X100"}

\* what metafieldsSet answers: no metafieldsSet object, user errors, an empty
\* metafields list, another metafield than the one asked for, or that one
SetAnswers == {"empty", "userErrors", "nometafields", "mismatch", "set"}

VariantBodies(kind) ==
    CASE kind = "metafields" ->
            {NullBody} \cup { [kind |-> "data", metafields |-> l] : l \in MetafieldLists }
      [] kind = "products" ->
            {NullBody} \cup { [kind |-> "data", variants |-> l] : l \in SearchLists }
      [] kind = "metafield" ->
            {NullBody, [kind |-> "data", metafield |-> None],
                       [kind |-> "data", metafield |-> "found"]}
      [] kind = "metafieldsSet" ->
            {NullBody} \cup { [kind |-> "data", metafieldsSet |-> a] : a \in SetAnswers }

Bodies(kind) ==
    CASE kind = "productCreate" ->
            {NullBody} \cup { [kind |-> "data", productCreate |-> c] : c \in ProductCreates }
      [] kind = "productByHandle" ->
            {NullBody} \cup { [kind |-> "data", productByHandle |-> h] : h \in {None, ""} \cup Gids }
      [] kind = "productUpdate" ->
            {NullBody} \cup { [kind |-> "data", productUpdate |-> u] : u \in ProductUpdates }
      [] kind = "query" -> {NullBody, [kind |-> "data"]}
      [] OTHER -> VariantBodies(kind)

\* The JSON documents the server can answer a query with.  A document that
\* reports errors carries no data, except that an error other than THROTTLED
\* may come with (partial) data.
Responses(kind) ==
    { [errorsKey |-> s.errorsKey, errors |-> s.errors, body |-> b] :
        s \in {x \in ErrorShapes : ~x.errorsKey \/ x.errors = <<OtherErr>>},
        b \in Bodies(kind) }
    \cup
    { [errorsKey |-> s.errorsKey, errors |-> s.errors, body |-> NullBody] :
        s \in {x \in ErrorShapes : x.errorsKey} }

\* `"errors" in result`
HasErrors(result) == result.errorsKey

----------------------------------------------------------------------------
(* ShopifyClient.execute_graphql *)

\* The call: payload = {"query": query, "variables": variables or {}} and the
\* loop variable at its first value.
GqlStart(call) ==
    /\ gqlPc' = "running"
    /\ gqlCall' = call
    /\ gqlAttempt' = 0
    /\ gqlReqs' = <<>>
    /\ gqlWaits' = <<>>
    /\ gqlResult' = NoPayload

\* `continue` / the end of the loop body: the next value of range(3), or the
\* statement after the loop when the range is exhausted.
GqlContinueOneMoreAttempt(outcome, seconds) ==
    /\ gqlReqs' = Append(gqlReqs, outcome)
    /\ gqlWaits' = Append(gqlWaits, seconds)
    /\ gqlAttempt' = gqlAttempt + 1
    /\ IF gqlAttempt + 1 < MaxAttempts + 1
         THEN /\ gqlPc' = "running"
              /\ gqlResult' = gqlResult
         ELSE /\ gqlPc' = "returned"
              /\ gqlResult' = MaxRetriesPayload

GqlContinue(outcome, seconds) ==
    /\ gqlReqs' = Append(gqlReqs, outcome)
    /\ gqlWaits' = Append(gqlWaits, seconds)
    /\ gqlAttempt' = gqlAttempt + 1
    /\ IF gqlAttempt + 1 < MaxAttempts
         THEN /\ gqlPc' = "running"
              /\ gqlResult' = gqlResult
         ELSE /\ gqlPc' = "returned"
              /\ gqlResult' = MaxRetriesPayload

\* a `return` inside the loop
GqlReturn(outcome, payload) ==
    /\ gqlReqs' = Append(gqlReqs, outcome)
    /\ gqlPc' = "returned"
    /\ gqlResult' = payload
    /\ UNCHANGED <<gqlAttempt, gqlWaits>>

\* One iteration of the loop in which the request is answered with a JSON
\* document.
execute_graphql_response ==
    /\ gqlPc = "running"
    /\ \E data \in Responses(gqlCall.kind) :
          IF IsThrottled(data)
            THEN GqlContinue([kind |-> "response", data |-> data],
                             ThrottleWait(gqlAttempt))
            ELSE GqlReturn([kind |-> "response", data |-> data], data)
    /\ UNCHANGED <<op, gqlCall, sent, replies, upVars, sv, pf, xformVars>>

\* One iteration of the loop in which the request raises RequestException.
execute_graphql_failure ==
    /\ gqlPc = "running"
    /\ \E e \in TransportFailures :
          IF IsLastAttempt(gqlAttempt)
            THEN GqlReturn([kind |-> "failure", error |-> e], RequestFailedPayload)
            ELSE GqlContinue([kind |-> "failure", error |-> e],
                             TransportWait(gqlAttempt))
    /\ UNCHANGED <<op, gqlCall, sent, replies, upVars, sv, pf, xformVars>>

\* The state of execute_graphql outside a call.
GqlIdle ==
    /\ gqlPc' = "idle"
    /\ gqlCall' = [kind |-> "none"]
    /\ gqlAttempt' = 0
    /\ gqlReqs' = <<>>
    /\ gqlWaits' = <<>>
    /\ gqlResult' = NoPayload

\* A caller of execute_graphql(query, variables).
graphql_call ==
    /\ op = "idle"
    /\ op' = "gql"
    /\ GqlStart([kind |-> "query"])
    /\ sent' = << [kind |-> "query"] >>
    /\ UNCHANGED <<replies, upVars, sv, pf, xformVars>>

\* execute_graphql has returned to that caller.
graphql_return ==
    /\ op = "gql"
    /\ gqlPc = "returned"
    /\ op' = "idle"
    /\ GqlIdle
    /\ sent' = <<>>
    /\ UNCHANGED <<replies, upVars, sv, pf, xformVars>>

----------------------------------------------------------------------------
(* ShopifyClient.upsert_product *)

\* The field dictionaries a caller passes: a handle, and no "id" key.
Handles == {"abc-100", "xyz-200"}

NoId == ""

NoCreate == [isNull |-> TRUE, userErrors |-> <<>>, product |-> None]

\* product = product_create.get("product") ... return product_id (lines 136-150)
CreateResultUnchecked(pc) == pc.product

CreateResult(pc) ==
    IF pc.product = None THEN None
    ELSE IF ~Truthy(pc.product) THEN None
    ELSE pc.product

\* upsert_product(product_data): the productCreate mutation is issued.
upsert_product ==
    /\ op = "idle"
    /\ \E h \in Handles :
          /\ product_data' = [handle |-> h, id |-> NoId]
          /\ GqlStart([kind |-> "productCreate", input |-> [handle |-> h, id |-> NoId]])
          /\ sent' = << [kind |-> "productCreate", input |-> [handle |-> h, id |-> NoId]] >>
    /\ op' = "upsert"
    /\ upPc' = "create"
    /\ UNCHANGED <<replies, upCreate, upGid, upResult, sv, pf, xformVars>>

\* `return value`
UpReturn(value) ==
    /\ upPc' = "done"
    /\ upResult' = value
    /\ UNCHANGED <<gqlVars, sent>>

\* `if "errors" in result` ... `if data is None` ... `if product_create is None`
CreateFailedIgnoringErrors(result) ==
    \/ result.body.kind = "null"
    \/ result.body.productCreate.isNull

CreateFailed(result) ==
    \/ HasErrors(result)
    \/ result.body.kind = "null"
    \/ result.body.productCreate.isNull

\* lines 84-107 and 136-150: the create has returned.
upsert_after_create ==
    /\ op = "upsert"
    /\ upPc = "create"
    /\ gqlPc = "returned"
    /\ replies' = Append(replies, gqlResult)
    /\ IF CreateFailed(gqlResult)
         THEN UpReturn(None) /\ UNCHANGED <<upCreate, upGid, product_data>>
       ELSE IF HandleTaken(gqlResult.body.productCreate.userErrors)
         THEN /\ upPc' = "lookup"
              /\ upCreate' = gqlResult.body.productCreate
              /\ GqlStart([kind |-> "productByHandle", h |-> product_data.handle])
              /\ sent' = Append(sent, [kind |-> "productByHandle", h |-> product_data.handle])
              /\ UNCHANGED <<upGid, upResult, product_data>>
       ELSE /\ UpReturn(CreateResult(gqlResult.body.productCreate))
            /\ upCreate' = gqlResult.body.productCreate
            /\ UNCHANGED <<upGid, product_data>>
    /\ UNCHANGED <<op, sv, pf, xformVars>>

\* gid = ((find_res.get("data") or {}).get("productByHandle") or {}).get("id")
LookupGid(find_res) ==
    IF find_res.body.kind = "null" THEN None ELSE find_res.body.productByHandle

\* lines 109-120 and 136-150: the lookup by handle has returned.
upsert_after_lookup ==
    /\ op = "upsert"
    /\ upPc = "lookup"
    /\ gqlPc = "returned"
    /\ replies' = Append(replies, gqlResult)
    /\ IF HasErrors(gqlResult)
         THEN UpReturn(None) /\ UNCHANGED <<upGid, product_data>>
       ELSE IF Truthy(LookupGid(gqlResult))
         THEN /\ upGid' = LookupGid(gqlResult)
              /\ product_data' = [product_data EXCEPT !.id = LookupGid(gqlResult)]
              /\ upPc' = "update"
              /\ GqlStart([kind |-> "productUpdate", input |-> product_data'])
              /\ sent' = Append(sent, [kind |-> "productUpdate", input |-> product_data'])
              /\ UNCHANGED upResult
       ELSE /\ UpReturn(CreateResult(upCreate))
            /\ upGid' = LookupGid(gqlResult)
            /\ UNCHANGED product_data
    /\ UNCHANGED <<op, upCreate, sv, pf, xformVars>>

\* `if "errors" in upd_result: return None` ... `return gid` (lines 122-134)
UpdateResultIgnoringErrors(upd_result, gid) == gid

UpdateResultUnlessUserErrors(upd_result, gid) ==
    IF HasErrors(upd_result) THEN None
    ELSE IF /\ upd_result.body.kind = "data"
            /\ ~upd_result.body.productUpdate.isNull
            /\ upd_result.body.productUpdate.userErrors # <<>>
      THEN None
    ELSE gid

UpdateResult(upd_result, gid) ==
    IF HasErrors(upd_result) THEN None ELSE gid

\* lines 122-134: the update has returned.
upsert_after_update ==
    /\ op = "upsert"
    /\ upPc = "update"
    /\ gqlPc = "returned"
    /\ replies' = Append(replies, gqlResult)
    /\ UpReturn(UpdateResult(gqlResult, upGid))
    /\ UNCHANGED <<op, upCreate, upGid, product_data, sv, pf, xformVars>>

\* The state of upsert_product outside a call.
UpIdle ==
    /\ upPc' = "idle"
    /\ product_data' = [handle |-> "", id |-> NoId]
    /\ upCreate' = NoCreate
    /\ upGid' = None
    /\ upResult' = None

\* upsert_product has returned to its caller.
upsert_return ==
    /\ op = "upsert"
    /\ upPc = "done"
    /\ op' = "idle"
    /\ UpIdle
    /\ GqlIdle
    /\ sent' = <<>>
    /\ replies' = <<>>
    /\ UNCHANGED <<sv, pf, xformVars>>

----------------------------------------------------------------------------
(* ShopifyClient.sync_variant and the metafield helpers *)

\* get_variant_metafields: the list it returns for the payload it got
GetVariantMetafields(result) ==
    IF HasErrors(result) \/ result.body.kind = "null"
      THEN <<>>
      ELSE result.body.metafields

\* set_variant_metafield: the boolean it returns for the payload it got
SetVariantMetafield(result) ==
    /\ ~HasErrors(result)
    /\ result.body.kind = "data"
    /\ result.body.metafieldsSet = "set"

\* 'mpn' in key_lower
HasMpnKey(mf) == Contains(Lower(mf.key), <<"m", "p", "n">>)

\* 'google' in ns_lower
HasGoogleNs(mf) == Contains(Lower(mf.namespace), <<"g", "o", "o", "g", "l", "e">>)

\* 'google' in key_lower
HasGoogleKey(mf) == Contains(Lower(mf.key), <<"g", "o", "o", "g", "l", "e">>)

\* lines 345-354: the loop over all_metafields; a later match replaces an
\* earlier one.
RECURSIVE OwnMpnInfo(_, _)
OwnMpnInfo(all_metafields, info) ==
    IF all_metafields = <<>> THEN info
    ELSE LET mf == Head(all_metafields) IN
         OwnMpnInfo(Tail(all_metafields),
                    IF HasMpnKey(mf) /\ ~(HasGoogleNs(mf) \/ HasGoogleKey(mf))
                      THEN mf ELSE info)

RECURSIVE OwnGoogleInfo(_, _)
OwnGoogleInfo(all_metafields, info) ==
    IF all_metafields = <<>> THEN info
    ELSE LET mf == Head(all_metafields) IN
         OwnGoogleInfo(Tail(all_metafields),
                       IF HasMpnKey(mf) /\ (HasGoogleNs(mf) \/ HasGoogleKey(mf))
                         THEN mf ELSE info)

\* lines 390-396: the loop over check_metafields; the first match ends it.
RECURSIVE CheckMpnInfo(_)
CheckMpnInfo(check_metafields) ==
    IF check_metafields = <<>> THEN NoInfo
    ELSE LET mf == Head(check_metafields) IN
         IF HasMpnKey(mf) /\ ~HasGoogleNs(mf)
           THEN mf
           ELSE CheckMpnInfo(Tail(check_metafields))

\* lines 382-388: the variants the search hands to the check, in order
SearchCandidatesWithOwn(search_result, variant_gid) ==
    IF search_result.body.kind = "null"
      THEN <<>>
      ELSE SelectSeq(search_result.body.variants, LAMBDA g : Truthy(g))

SearchCandidates(search_result, variant_gid) ==
    IF search_result.body.kind = "null"
      THEN <<>>
      ELSE SelectSeq(search_result.body.variants,
                     LAMBDA g : Truthy(g) /\ g # variant_gid)

\* `if mpn:`
MpnSuppliedUnlessNone(mpn) == mpn # None

MpnSupplied(mpn) == Truthy(mpn)

\* `return str(v_id)`
VariantResultIfAllSet(v_id, google_success, mpn_success) ==
    IF google_success /\ mpn_success THEN ToString(v_id) ELSE None

VariantResult(v_id, google_success, mpn_success) == ToString(v_id)

\* lines 415-423: where the generic MPN metafield is written
MpnTarget(mpn_metafield_info) ==
    IF mpn_metafield_info # NoInfo
      THEN mpn_metafield_info
      ELSE [namespace |-> NsCustom, key |-> KeyVendorPart]

\* line 409: where the Google Shopping MPN metafield is written, whatever
\* google_mpn_metafield_info holds
GoogleTargetDiscovered(google_mpn_metafield_info) ==
    IF google_mpn_metafield_info # NoInfo
      THEN google_mpn_metafield_info
      ELSE [namespace |-> NsGoogleShopping, key |-> KeyMpn]

GoogleTarget(google_mpn_metafield_info) ==
    [namespace |-> NsGoogleShopping, key |-> KeyMpn]

SvIdle ==
    [pc |-> "idle", product_gid |-> "", mpn |-> None, v_id |-> 0, updated |-> FALSE,
     google_info |-> NoInfo, mpn_info |-> NoInfo, todo |-> <<>>,
     google_success |-> FALSE, mpn_success |-> FALSE,
     result |-> None, raised |-> "no"]

\* The REST calls of sync_variant.
GetVariants(product_gid) == [kind |-> "GET variants", product_gid |-> product_gid]

\* payload = {"variant": {"sku": sku, "price": price, "barcode": barcode or None,
\*            "inventory_management": None, "inventory_policy": "continue"}}
PutVariant(v_id) ==
    [kind |-> "PUT variant", v_id |-> v_id, inventory_policy |-> "continue"]

\* The GraphQL calls of sync_variant and its helpers.
QueryMetafields(gid) == [kind |-> "metafields", ownerId |-> gid]
QueryProducts == [kind |-> "products"]
QueryMetafield(gid, ns, key) ==
    [kind |-> "metafield", ownerId |-> gid, namespace |-> ns, key |-> key]
MetafieldsSet(gid, ns, key, value) ==
    [kind |-> "metafieldsSet", ownerId |-> gid, namespace |-> ns, key |-> key,
     value |-> value]

\* self.execute_graphql(query, variables), from sync_variant or a helper
SvCall(call) ==
    /\ GqlStart(call)
    /\ sent' = Append(sent, call)

\* v_data.get("variants", [{}])[0].get("id")
FirstVariantId(get) == IF get.kind = "variant" THEN get.v_id ELSE 0

\* sync_variant(product_gid, sku, price, barcode, mpn), lines 316-340: the
\* variant is fetched and updated; with an MPN the metafields of the variant
\* are queried.
sync_variant ==
    /\ op = "idle"
    /\ op' = "variant"
    /\ \E product_gid \in Gids, mpn \in MpnInputs, get \in GetOutcomes, put \in PutOutcomes :
         LET called == [SvIdle EXCEPT !.product_gid = product_gid, !.mpn = mpn] IN
         CASE get.kind = "failure" ->
                /\ sv' = [called EXCEPT !.pc = "done"]
                /\ sent' = <<GetVariants(product_gid)>>
                /\ UNCHANGED gqlVars
           [] get.kind = "empty" ->
                /\ sv' = [called EXCEPT !.pc = "done", !.raised = "IndexError"]
                /\ sent' = <<GetVariants(product_gid)>>
                /\ UNCHANGED gqlVars
           [] get.kind \in {"nokey", "noid"} ->
                /\ sv' = [called EXCEPT !.pc = "done"]
                /\ sent' = <<GetVariants(product_gid)>>
                /\ UNCHANGED gqlVars
           [] get.kind = "variant" /\ put = "failure" ->
                /\ sv' = [called EXCEPT !.pc = "done", !.v_id = FirstVariantId(get)]
                /\ sent' = <<GetVariants(product_gid), PutVariant(FirstVariantId(get))>>
                /\ UNCHANGED gqlVars
           [] get.kind = "variant" /\ put = "ok" /\ ~MpnSupplied(mpn) ->
                /\ sv' = [called EXCEPT !.pc = "done", !.v_id = FirstVariantId(get),
                                        !.updated = TRUE,
                                        !.result = VariantResult(FirstVariantId(get), FALSE, FALSE)]
                /\ sent' = <<GetVariants(product_gid), PutVariant(FirstVariantId(get))>>
                /\ UNCHANGED gqlVars
           [] get.kind = "variant" /\ put = "ok" /\ MpnSupplied(mpn) ->
                /\ sv' = [called EXCEPT !.pc = "own", !.v_id = FirstVariantId(get),
                                        !.updated = TRUE]
                /\ GqlStart(QueryMetafields(VariantGid(FirstVariantId(get))))
                /\ sent' = <<GetVariants(product_gid), PutVariant(FirstVariantId(get)),
                             QueryMetafields(VariantGid(FirstVariantId(get)))>>
    /\ UNCHANGED <<replies, upVars, pf, xformVars>>

\* lines 405: existing_google = self.get_variant_metafield(...)
SvQueryExisting(next) ==
    /\ sv' = [next EXCEPT !.pc = "existing_google"]
    /\ SvCall(QueryMetafield(VariantGid(next.v_id), NsGoogleShopping, KeyMpn))

\* lines 340-381: the metafields of the variant are back.
sync_variant_own ==
    /\ op = "variant"
    /\ sv.pc = "own"
    /\ gqlPc = "returned"
    /\ LET all_metafields == GetVariantMetafields(gqlResult)
           next == [sv EXCEPT !.mpn_info = OwnMpnInfo(all_metafields, NoInfo),
                              !.google_info = OwnGoogleInfo(all_metafields, NoInfo)]
       IN IF next.mpn_info = NoInfo
            THEN /\ sv' = [next EXCEPT !.pc = "search"]
                 /\ SvCall(QueryProducts)
            ELSE SvQueryExisting(next)
    /\ UNCHANGED <<op, replies, upVars, pf, xformVars>>

\* lines 381-389: the search is back; the first other variant is checked.
sync_variant_search ==
    /\ op = "variant"
    /\ sv.pc = "search"
    /\ gqlPc = "returned"
    /\ LET candidates == SearchCandidates(gqlResult, VariantGid(sv.v_id)) IN
       IF candidates = <<>>
         THEN SvQueryExisting(sv)
         ELSE /\ sv' = [sv EXCEPT !.pc = "check", !.todo = Tail(candidates)]
              /\ SvCall(QueryMetafields(Head(candidates)))
    /\ UNCHANGED <<op, replies, upVars, pf, xformVars>>

\* lines 389-400: the metafields of another variant are back.
sync_variant_check ==
    /\ op = "variant"
    /\ sv.pc = "check"
    /\ gqlPc = "returned"
    /\ LET found == CheckMpnInfo(GetVariantMetafields(gqlResult)) IN
       IF found # NoInfo
         THEN SvQueryExisting([sv EXCEPT !.mpn_info = found, !.todo = <<>>])
       ELSE IF sv.todo = <<>>
         THEN SvQueryExisting(sv)
       ELSE /\ sv' = [sv EXCEPT !.todo = Tail(sv.todo)]
            /\ SvCall(QueryMetafields(Head(sv.todo)))
    /\ UNCHANGED <<op, replies, upVars, pf, xformVars>>

\* lines 405-406: existing_google is back; existing_mpn is queried.
sync_variant_existing_google ==
    /\ op = "variant"
    /\ sv.pc = "existing_google"
    /\ gqlPc = "returned"
    /\ sv' = [sv EXCEPT !.pc = "existing_mpn"]
    /\ SvCall(QueryMetafield(VariantGid(sv.v_id), NsCustom, KeyVendorPart))
    /\ UNCHANGED <<op, replies, upVars, pf, xformVars>>

\* lines 406-409: existing_mpn is back; the Google Shopping MPN is written.
sync_variant_existing_mpn ==
    /\ op = "variant"
    /\ sv.pc = "existing_mpn"
    /\ gqlPc = "returned"
    /\ sv' = [sv EXCEPT !.pc = "set_google"]
    /\ SvCall(MetafieldsSet(VariantGid(sv.v_id), GoogleTarget(sv.google_info).namespace,
                            GoogleTarget(sv.google_info).key, sv.mpn))
    /\ UNCHANGED <<op, replies, upVars, pf, xformVars>>

\* lines 409-425: the first write is back; the generic MPN is written.
sync_variant_set_google ==
    /\ op = "variant"
    /\ sv.pc = "set_google"
    /\ gqlPc = "returned"
    /\ sv' = [sv EXCEPT !.pc = "set_mpn", !.google_success = SetVariantMetafield(gqlResult)]
    /\ SvCall(MetafieldsSet(VariantGid(sv.v_id), MpnTarget(sv.mpn_info).namespace,
                            MpnTarget(sv.mpn_info).key, sv.mpn))
    /\ UNCHANGED <<op, replies, upVars, pf, xformVars>>

\* lines 425-429: the second write is back; sync_variant returns.
sync_variant_set_mpn ==
    /\ op = "variant"
    /\ sv.pc = "set_mpn"
    /\ gqlPc = "returned"
    /\ sv' = [sv EXCEPT !.pc = "done",
                        !.mpn_success = SetVariantMetafield(gqlResult),
                        !.result = VariantResult(sv.v_id, sv.google_success,
                                                 SetVariantMetafield(gqlResult))]
    /\ UNCHANGED <<op, gqlVars, sent, replies, upVars, pf, xformVars>>

\* sync_variant has returned to its caller, or raised.
sync_variant_return ==
    /\ op = "variant"
    /\ sv.pc = "done"
    /\ op' = "idle"
    /\ sv' = SvIdle
    /\ GqlIdle
    /\ sent' = <<>>
    /\ UNCHANGED <<replies, upVars, pf, xformVars>>

----------------------------------------------------------------------------
(* PimcoreClient.fetch_products and the PimcoreProduct model *)

\* A JSON number, or null where a number is expected.
Num(v)  == [null |-> FALSE, v |-> v]
NullNum == [null |-> TRUE, v |-> 0]

\* The nodes of a listing, up to their "id": every field set; the optional
\* fields null; and nodes with a null in a field the model requires.
NodeFull ==
    [sku |-> "VIZ-100", upc |-> "0123456789", WebPrice |-> Num(2500), MAP |-> Num(2000),
     Retail |-> Num(3000), BrandName |-> "Acme", Model |-> "X100",
     VendorPartNumber |-> "X100-B", Description_Short |-> "great widget",
     Description_Medium |-> "<p>great widget</p>", Specifications_WYSIWYG |-> "<h2>Specs</h2>",
     WhatsInBox |-> "<p>widget</p>", PartPrefix |-> "VIZ", ImagePrimary |-> "55"]

NodeSparse ==
    [NodeFull EXCEPT !.upc = None, !.Model = None, !.Description_Short = None,
                     !.Description_Medium = None, !.Specifications_WYSIWYG = None,
                     !.WhatsInBox = None, !.PartPrefix = None, !.ImagePrimary = None]

NodeNoSku      == [NodeFull EXCEPT !.sku = None]
NodeNoBrand    == [NodeSparse EXCEPT !.BrandName = None]
NodeNoVendorPn == [NodeFull EXCEPT !.VendorPartNumber = None]
NodeNoWebPrice == [NodeFull EXCEPT !.WebPrice = NullNum]

NodeShapes ==
    {NodeFull, NodeSparse, NodeNoSku, NodeNoBrand, NodeNoVendorPn, NodeNoWebPrice}

\* An edge of the listing: {"node": {...}}, or an object without "node".
EdgeShapes ==
    { [hasNode |-> TRUE, node |-> n] : n \in NodeShapes }
    \cup { [hasNode |-> FALSE, node |-> NodeFull] }

\* most edges a listing returns
MaxNodes == 3

\* The edges of a listing; the node at position i has the id i.
EdgeLists == SeqsUpTo(EdgeShapes, MaxNodes)

NodeId(i) == ToString(i)

\* What the POST of the listing query meets: the request raises
\* RequestException, raise_for_status raises on the HTTP status, the body is
\* not JSON, or the body is a JSON document.
FetchResponses ==
    { [kind |-> k, errorsKey |-> FALSE, data |-> FALSE, edges |-> <<>>] :
        k \in {"network", "status", "notjson"} }
    \cup
    { [kind |-> "json", errorsKey |-> e, data |-> FALSE, edges |-> <<>>] :
        e \in BOOLEAN }
    \cup
    { [kind |-> "json", errorsKey |-> e, data |-> TRUE, edges |-> l] :
        e \in BOOLEAN, l \in EdgeLists }

\* PimcoreProduct(**node_data): the fields without default must be given, and
\* None is no value for a str or float field that is not Optional.
Validates(node_data) ==
    /\ node_data.id # None
    /\ node_data.sku # None
    /\ node_data.BrandName # None
    /\ node_data.VendorPartNumber # None
    /\ ~node_data.WebPrice.null
    /\ ~node_data.MAP.null
    /\ ~node_data.Retail.null

\* if node_data.get(k) is None: node_data[k] = ""
NoneToEmptyKeepsNone(v) == v

NoneToEmpty(v) == IF v = None THEN "" ELSE v

\* lines 411-425: the node as handed to the model
NodeData(id, node) ==
    [node EXCEPT !.Description_Short = NoneToEmpty(node.Description_Short),
                 !.Description_Medium = NoneToEmpty(node.Description_Medium),
                 !.Specifications_WYSIWYG = NoneToEmpty(node.Specifications_WYSIWYG),
                 !.WhatsInBox = NoneToEmpty(node.WhatsInBox)]
    @@ [id |-> id, image_asset_id |-> node.ImagePrimary]

\* The PimcoreProduct built from validated node data: fields by alias, the
\* fields the query does not ask for at their defaults.
PimcoreProduct(node_data) ==
    [id |-> node_data.id, sku |-> node_data.sku, upc |-> node_data.upc,
     web_price |-> node_data.WebPrice.v, map_price |-> node_data.MAP.v,
     retail_price |-> node_data.Retail.v, cost |-> NullNum,
     brand_name |-> node_data.BrandName, model |-> node_data.Model,
     vendor_part_number |-> node_data.VendorPartNumber,
     description_short |-> node_data.Description_Short,
     description_medium |-> node_data.Description_Medium,
     specifications_wysiwyg |-> node_data.Specifications_WYSIWYG,
     whats_in_box |-> node_data.WhatsInBox,
     product_type_raw |-> None, part_prefix |-> node_data.PartPrefix,
     product_webpage |-> None, weight |-> NullNum,
     image_asset_id |-> node_data.image_asset_id]

\* lines 407-434: the loop over the edges; an edge without node and a node
\* the model rejects are logged and skipped.
RECURSIVE FetchLoopStopsAtInvalid(_, _, _)
FetchLoopStopsAtInvalid(edges, i, products) ==
    IF i > Len(edges) THEN products
    ELSE IF ~edges[i].hasNode THEN products
    ELSE IF ~Validates(NodeData(NodeId(i), edges[i].node)) THEN products
    ELSE FetchLoopStopsAtInvalid(edges, i + 1,
             Append(products, PimcoreProduct(NodeData(NodeId(i), edges[i].node))))

RECURSIVE FetchLoop(_, _, _)
FetchLoop(edges, i, products) ==
    IF i > Len(edges) THEN products
    ELSE IF ~edges[i].hasNode THEN FetchLoop(edges, i + 1, products)
    ELSE IF ~Validates(NodeData(NodeId(i), edges[i].node))
      THEN FetchLoop(edges, i + 1, products)
    ELSE FetchLoop(edges, i + 1,
             Append(products, PimcoreProduct(NodeData(NodeId(i), edges[i].node))))

\* What the body of the outer `try` raises: RequestException from the POST or
\* raise_for_status, ValueError from res.json(), AttributeError from
\* data['data'].keys() when "data" is null.
FetchException(response) ==
    CASE response.kind \in {"network", "status"} -> "RequestException"
      [] response.kind = "notjson" -> "ValueError"
      [] response.kind = "json" /\ ~response.errorsKey /\ ~response.data -> "AttributeError"
      [] OTHER -> "none"

\* The handlers: `except ValueError` around res.json(), `except
\* requests.RequestException` and `except Exception` around the whole.
FetchCatchesRequestExceptionOnly(exception) == exception = "RequestException"

FetchCatches(exception) ==
    exception \in {"ValueError", "RequestException", "AttributeError"}

\* `if "errors" in data: return []` ... `return products`
FetchReturns(response) ==
    IF response.errorsKey THEN <<>> ELSE FetchLoop(response.edges, 1, <<>>)

PfIdle == [pc |-> "idle"]

\* fetch_products(prefix, limit), lines 371-440
fetch_products ==
    /\ op = "idle"
    /\ op' = "fetch"
    /\ \E response \in FetchResponses :
         LET exception == FetchException(response) IN
         pf' = [pc       |-> "done",
                response |-> response,
                products |-> IF exception = "none" THEN FetchReturns(response) ELSE <<>>,
                raised   |-> IF exception = "none" \/ FetchCatches(exception)
                               THEN "no" ELSE exception]
    /\ UNCHANGED <<gqlVars, sent, replies, upVars, sv, xformVars>>

\* fetch_products has returned to its caller.
fetch_products_return ==
    /\ op = "fetch"
    /\ pf.pc = "done"
    /\ op' = "idle"
    /\ pf' = PfIdle
    /\ UNCHANGED <<gqlVars, sent, replies, upVars, sv, xformVars>>

----------------------------------------------------------------------------
(* models.py: the PimcoreProduct transforms *)

\* An Optional[str] field whose characters matter: None, or a string held as
\* its sequence of characters.
Text(s)  == [null |-> FALSE, s |-> s]
NullText == [null |-> TRUE, s |-> <<>>]

\* `if text:` on an Optional[str]
TextTruthy(t) == ~t.null /\ t.s # <<>>

PpIdle == [pc |-> "idle"]

\* Prices are held in hundredths: 2500 stands for the float 25.0.  The
\* source sends any JSON number, negative ones included.
MaxPrice == 3

PriceValues ==
    { c * u : c \in (0 - MaxPrice)..MaxPrice, u \in {1, 10, 100} }

PriceRecords ==
    [web_price : PriceValues, map_price : PriceValues, retail_price : PriceValues]

\* str(x) of a float with at most two decimals: the shortest decimal that
\* reads back as x, always with a fractional part.
FloatStr(c) ==
    LET whole == c \div 100
        frac  == c % 100
    IN  ToString(whole) \o "." \o
          (IF frac % 10 = 0 THEN ToString(frac \div 10)
           ELSE ToString(frac \div 10) \o ToString(frac % 10))

\* lines 32-37
EffectiveWebPriceIfNonZero(self) ==
    IF self.web_price # 0
      THEN self.web_price
      ELSE IF self.retail_price # 0 THEN self.retail_price ELSE 0

EffectiveWebPrice(self) ==
    IF self.web_price # 0 /\ self.web_price > 0
      THEN self.web_price
      ELSE IF self.retail_price # 0 THEN self.retail_price ELSE 0

\* [p for p in [...] if p > 0]
PositivePricesOrZero(prices) == SelectSeq(prices, LAMBDA p : p >= 0)

PositivePrices(prices) == SelectSeq(prices, LAMBDA p : p > 0)

\* min(prices) of a non-empty list
RECURSIVE ListMin(_)
ListMin(prices) ==
    IF Len(prices) = 1 THEN prices[1]
    ELSE LET rest == ListMin(Tail(prices))
         IN  IF rest < prices[1] THEN rest ELSE prices[1]

\* lines 39-46
SelectedPrice(self) ==
    LET effective_web == EffectiveWebPrice(self)
        prices == PositivePrices(<<effective_web, self.map_price, self.retail_price>>)
    IN  IF prices # <<>> THEN FloatStr(ListMin(prices)) ELSE "0.00"

\* PimcoreProduct.effective_web_price of a record with these prices
effective_web_price ==
    /\ op = "idle"
    /\ op' = "record"
    /\ \E self \in PriceRecords :
         pp' = [pc |-> "done", method |-> "effective_web_price", self |-> self,
                value |-> EffectiveWebPrice(self)]
    /\ UNCHANGED <<gqlVars, sent, replies, upVars, sv, pf, helper, eng, mn>>

\* PimcoreProduct.selected_price of a record with these prices
selected_price ==
    /\ op = "idle"
    /\ op' = "record"
    /\ \E self \in PriceRecords :
         pp' = [pc |-> "done", method |-> "selected_price", self |-> self,
                text |-> SelectedPrice(self)]
    /\ UNCHANGED <<gqlVars, sent, replies, upVars, sv, pf, helper, eng, mn>>

\* n times the character c
Rep(c, n) == [i \in 1..n |-> c]

\* every string of at most n characters of S
StringsUpTo(S, n) == UNION { [1..k -> S] : k \in 0..n }

\* line 51
TITLE_MAX == 255

\* Brand names reach from MaxSlack characters below the maximum to just above
\* it; descriptions have up to MaxDescLen characters of words and spaces,
\* alone or after one long word.
MaxSlack == 12
MaxDescLen == 6

BrandNames ==
    { Rep("B", n) : n \in {1} \cup ((TITLE_MAX - MaxSlack)..(TITLE_MAX + 1)) }

Models == {NullText, Text(<<>>), Text(<<"M", "1">>)}

VendorPartNumbers == { <<"V">> }

LongWord == Rep("w", TITLE_MAX - MaxSlack)

Descriptions ==
    {NullText}
    \cup { Text(d) : d \in StringsUpTo({"d", " "}, MaxDescLen) }
    \cup { Text(LongWord \o d) : d \in StringsUpTo({"d", " "}, MaxDescLen) }

TitleRecords ==
    [brand_name : BrandNames, model : Models,
     vendor_part_number : VendorPartNumbers, description_short : Descriptions]

\* text.rsplit(' ', 1)[0]: what stands before the last space, or the whole
\* text when it has no space
RSplitHead(text) ==
    LET spaces == { i \in 1..Len(text) : text[i] = " " }
    IN  IF spaces = {} THEN text
        ELSE SubSeq(text, 1, (CHOOSE i \in spaces : \A j \in spaces : j <= i) - 1)

\* line 53
BaseTitle(self) ==
    LET model_val == IF TextTruthy(self.model) THEN self.model.s
                     ELSE self.vendor_part_number
    IN  self.brand_name \o <<" ">> \o model_val

\* line 60
RemainingWithoutReserve(base_title) == TITLE_MAX - Len(base_title)

Remaining(base_title) == TITLE_MAX - Len(base_title) - 4

\* lines 48-74
ProductTitle(self) ==
    LET base_title == BaseTitle(self)
        remaining == Remaining(base_title)
        description_short == self.description_short
    IN  IF Len(base_title) >= TITLE_MAX THEN SubSeq(base_title, 1, TITLE_MAX)
        ELSE IF ~TextTruthy(description_short) \/ remaining <= 0 THEN base_title
        ELSE IF Len(description_short.s) <= remaining
          THEN base_title \o <<" ">> \o description_short.s
        ELSE LET desc_snippet == RSplitHead(SubSeq(description_short.s, 1, remaining))
             IN  IF desc_snippet # <<>>
                   THEN base_title \o <<" ">> \o desc_snippet \o <<".", ".", ".">>
                   ELSE base_title

\* PimcoreProduct.product_title of a record with these fields
product_title ==
    /\ op = "idle"
    /\ op' = "record"
    /\ \E self \in TitleRecords :
         pp' = [pc |-> "done", method |-> "product_title", self |-> self,
                chars |-> ProductTitle(self)]
    /\ UNCHANGED <<gqlVars, sent, replies, upVars, sv, pf, helper, eng, mn>>

\* Markup is put together from at most MaxPieces pieces: heading tags in both
\* letter cases, escaped and bare angle brackets, an escaped ampersand, text.
MaxPieces == 2

MarkupPieces ==
    { <<"<", "h", "2", ">">>, <<"<", "H", "2", ">">>, <<"<", "/", "h", "2", ">">>, <<"<", "/", "H", "2", ">">>,
      <<"&", "l", "t", ";">>, <<"&", "g", "t", ";">>, <<"&", "a", "m", "p", ";">>, <<"&", "l", "t">>,
      <<"h", "2">>, <<"<">>, <<">">>, <<"/">>, <<"x">> }

RECURSIVE Flatten(_)
Flatten(pieces) ==
    IF pieces = <<>> THEN <<>> ELSE Head(pieces) \o Flatten(Tail(pieces))

Markups == { Flatten(pieces) : pieces \in SeqsUpTo(MarkupPieces, MaxPieces) }

HtmlRecords ==
    [description_medium : {NullText} \cup { Text(m) : m \in Markups },
     specifications_wysiwyg :
        {NullText, Text(<<>>), Text(<<"<", "h", "2", ">", "S", "<", "/", "h", "2", ">">>), Text(<<"&", "l", "t", ";", "H", "2", "&", "g", "t", ";">>)}]

\* text starts with prefix
StartsWith(text, prefix) ==
    Len(text) >= Len(prefix) /\ SubSeq(text, 1, Len(prefix)) = prefix

\* text without its first n characters
Drop(text, n) == SubSeq(text, n + 1, Len(text))

\* html.unescape(text), for the named references the markup can hold: &lt,
\* &gt and &amp, with or without the closing semicolon; one pass, so that
\* "&amp;lt;" becomes "&lt;".
RECURSIVE HtmlUnescape(_)
HtmlUnescape(text) ==
    IF text = <<>> THEN <<>>
    ELSE IF StartsWith(text, <<"&", "a", "m", "p", ";">>) THEN <<"&">> \o HtmlUnescape(Drop(text, 5))
    ELSE IF StartsWith(text, <<"&", "a", "m", "p">>) THEN <<"&">> \o HtmlUnescape(Drop(text, 4))
    ELSE IF StartsWith(text, <<"&", "l", "t", ";">>) THEN <<"<">> \o HtmlUnescape(Drop(text, 4))
    ELSE IF StartsWith(text, <<"&", "l", "t">>) THEN <<"<">> \o HtmlUnescape(Drop(text, 3))
    ELSE IF StartsWith(text, <<"&", "g", "t", ";">>) THEN <<">">> \o HtmlUnescape(Drop(text, 4))
    ELSE IF StartsWith(text, <<"&", "g", "t">>) THEN <<">">> \o HtmlUnescape(Drop(text, 3))
    ELSE <<Head(text)>> \o HtmlUnescape(Tail(text))

\* re.sub(pattern, repl, text, flags=re.I) for a literal lower-case pattern:
\* the matches are taken from left to right and do not overlap.
RECURSIVE ReSubCaseSensitive(_, _, _)
ReSubCaseSensitive(pattern, repl, text) ==
    IF text = <<>> THEN <<>>
    ELSE IF StartsWith(text, pattern)
      THEN repl \o ReSubCaseSensitive(pattern, repl, Drop(text, Len(pattern)))
    ELSE <<Head(text)>> \o ReSubCaseSensitive(pattern, repl, Tail(text))

RECURSIVE ReSubIgnoreCase(_, _, _)
ReSubIgnoreCase(pattern, repl, text) ==
    IF text = <<>> THEN <<>>
    ELSE IF Len(text) >= Len(pattern) /\ Lower(SubSeq(text, 1, Len(pattern))) = pattern
      THEN repl \o ReSubIgnoreCase(pattern, repl, Drop(text, Len(pattern)))
    ELSE <<Head(text)>> \o ReSubIgnoreCase(pattern, repl, Tail(text))

\* lines 78-87
Clean(text) ==
    IF text.null THEN <<>>
    ELSE LET decoded == HtmlUnescape(text.s)
             opened == ReSubIgnoreCase(<<"<", "h", "2", ">">>, <<"<", "h", "3", ">">>, decoded)
         IN  ReSubIgnoreCase(<<"<", "/", "h", "2", ">">>, <<"<", "/", "h", "3", ">">>, opened)

DescriptionLabel ==
    <<"<", "h", "2", ">", "D", "e", "s", "c", "r", "i", "p", "t", "i", "o", "n", "<", "/", "h", "2", ">">>

TechSpecsLabel ==
    <<"<", "h", "2", ">", "T", "e", "c", "h", " ", "S", "p", "e", "c", "s", "<", "/", "h", "2", ">">>

\* lines 76-95
GetSanitizedHtml(self) ==
    LET description == IF TextTruthy(self.description_medium)
                         THEN DescriptionLabel \o Clean(self.description_medium)
                         ELSE <<>>
        specs == IF TextTruthy(self.specifications_wysiwyg)
                   THEN TechSpecsLabel \o Clean(self.specifications_wysiwyg)
                   ELSE <<>>
    IN  description \o specs

\* PimcoreProduct.get_sanitized_html() of a record with these fields
get_sanitized_html ==
    /\ op = "idle"
    /\ op' = "record"
    /\ \E self \in HtmlRecords :
         pp' = [pc |-> "done", method |-> "get_sanitized_html", self |-> self,
                chars |-> GetSanitizedHtml(self)]
    /\ UNCHANGED <<gqlVars, sent, replies, upVars, sv, pf, helper, eng, mn>>

\* The property or method has returned to its caller.
record_return ==
    /\ op = "record"
    /\ pp.pc = "done"
    /\ op' = "idle"
    /\ pp' = PpIdle
    /\ UNCHANGED <<gqlVars, sent, replies, upVars, sv, pf, helper, eng, mn>>

----------------------------------------------------------------------------
(* sync_engine.py: SyncEngine.run and its helpers *)

HelperIdle == [pc |-> "idle"]

Letters ==
    {"a", "b", "c", "d", "e", "f", "g", "h", "i", "j", "k", "l", "m",
     "n", "o", "p", "q", "r", "s", "t", "u", "v", "w", "x", "y", "z"}

Digits == {"0", "1", "2", "3", "4", "5", "6", "7", "8", "9"}

\* [a-zA-Z0-9]
IsAlnum(c) == LowerChar(c) \in Letters \/ c \in Digits

\* The stock-keeping codes: up to MaxSkuLen characters, every one different
\* from its neighbours, all alphanumeric or with one hyphen among them.
MaxSkuLen == 24

SkuChars ==
    <<"A", "B", "C", "D", "E", "F", "G", "H", "I", "J", "K", "L", "M",
      "N", "O", "P", "Q", "R", "S", "T", "U", "V", "W", "X", "Y", "Z",
      "0", "1", "2", "3", "4", "5", "6", "7", "8", "9">>

Sku(n, hyphen) ==
    [i \in 1..n |-> IF i = hyphen THEN "-" ELSE SkuChars[((i - 1) % Len(SkuChars)) + 1]]

Skus == { Sku(n, hyphen) : n \in 0..MaxSkuLen, hyphen \in 0..MaxSkuLen }

\* text[n:], text[:n] and text[-n:]
From(text, n) == IF n >= Len(text) THEN <<>> ELSE SubSeq(text, n + 1, Len(text))
UpTo(text, n) == IF n >= Len(text) THEN text ELSE SubSeq(text, 1, n)
Last(text, n) == IF n >= Len(text) THEN text ELSE SubSeq(text, Len(text) - n + 1, Len(text))

\* lines 81-86
FormatEarPartUncut(sku) ==
    LET cleaned == SelectSeq(sku, IsAlnum)
        formatted == UpTo(cleaned, 3) \o <<"-">> \o From(cleaned, 3)
    IN  IF Len(formatted) > 20
          THEN UpTo(formatted, 4) \o Last(formatted, 3) \o From(formatted, 7)
          ELSE formatted

FormatEarPart(sku) ==
    LET cleaned == SelectSeq(sku, IsAlnum)
        formatted == UpTo(cleaned, 3) \o <<"-">> \o From(cleaned, 3)
        spliced == IF Len(formatted) > 20
                     THEN UpTo(formatted, 4) \o Last(formatted, 3) \o From(formatted, 7)
                     ELSE formatted
    IN  UpTo(spliced, 20)

\* format_ear_part(sku), the helper nested in run
format_ear_part ==
    /\ op = "idle"
    /\ op' = "helper"
    /\ \E sku \in Skus :
         helper' = [pc |-> "done", fn |-> "format_ear_part", sku |-> sku,
                    chars |-> FormatEarPart(sku)]
    /\ UNCHANGED <<gqlVars, sent, replies, upVars, sv, pf, pp, eng, mn>>

\* Descriptions are put together from at most MaxTokens tokens with a space
\* between them: words in two letter cases, a hyphen and a slash standing
\* alone, a word with a character that is stripped, the brand in upper case,
\* the vendor part number, and nothing (which doubles the space).
MaxTokens == 3

DescTokens ==
    { <<"a", "b">>, <<"A", "B">>, <<"c", "d">>, <<"-">>, <<"/">>, <<"a", ",", "b">>, <<"A", "C", "M", "E">>, <<"X", "1">>, <<>> }

\* ' '.join(words)
RECURSIVE Join(_)
Join(words) ==
    IF words = <<>> THEN <<>>
    ELSE IF Len(words) = 1 THEN words[1]
    ELSE words[1] \o <<" ">> \o Join(Tail(words))

DescTexts == { Join(tokens) : tokens \in SeqsUpTo(DescTokens, MaxTokens) }

\* The arguments of the two calls of a row: the description, the vendor part
\* number as `sku`, the brand name as `brand`; the parameters default to None.
SanitizeArgs ==
    [text : DescTexts, sku : {NullText, Text(<<"X", "1">>)}, brand : {NullText, Text(<<"A", "c", "m", "e">>)}]

\* \s* consumed after a match: the leading spaces go
RECURSIVE SkipSpaces(_)
SkipSpaces(text) ==
    IF text # <<>> /\ Head(text) = " " THEN SkipSpaces(Tail(text)) ELSE text

\* line 99: re.sub(re.escape(brand) + r'\s*', '', text, flags=re.IGNORECASE)
RECURSIVE RemoveBrand(_, _)
RemoveBrand(text, brand) ==
    IF text = <<>> THEN <<>>
    ELSE IF StartsWith(Lower(text), Lower(brand))
      THEN RemoveBrand(SkipSpaces(Drop(text, Len(brand))), brand)
    ELSE <<Head(text)>> \o RemoveBrand(Tail(text), brand)

\* line 102: re.sub(r'^' + re.escape(sku) + r'\s+', '', text)
RemoveLeadingSku(text, sku) ==
    IF StartsWith(text, sku \o <<" ">>) THEN SkipSpaces(Drop(text, Len(sku)))
    ELSE text

\* text.replace(old, new)
RECURSIVE StrReplace(_, _, _)
StrReplace(text, old, new) ==
    IF text = <<>> THEN <<>>
    ELSE IF StartsWith(text, old) THEN new \o StrReplace(Drop(text, Len(old)), old, new)
    ELSE <<Head(text)>> \o StrReplace(Tail(text), old, new)

\* line 107: [a-zA-Z0-9/\- ]
IsAllowed(c) == IsAlnum(c) \/ c \in {"/", "-", " "}

\* line 109: re.sub(r' +', ' ', text)
RECURSIVE CollapseSpaces(_)
CollapseSpaces(text) ==
    IF Len(text) < 2 THEN text
    ELSE IF text[1] = " " /\ text[2] = " " THEN CollapseSpaces(Tail(text))
    ELSE <<Head(text)>> \o CollapseSpaces(Tail(text))

\* text.split(): the runs of characters between the spaces
RECURSIVE SplitWords(_, _, _)
SplitWords(text, word, words) ==
    IF text = <<>> THEN (IF word = <<>> THEN words ELSE Append(words, word))
    ELSE IF Head(text) = " "
      THEN SplitWords(Tail(text), <<>>, IF word = <<>> THEN words ELSE Append(words, word))
    ELSE SplitWords(Tail(text), Append(word, Head(text)), words)

\* lines 97-111: the local `words`
SanitizeWords(text, sku, brand) ==
    LET unbranded == IF TextTruthy(brand) THEN RemoveBrand(text, brand.s) ELSE text
        unnumbered == IF TextTruthy(sku) THEN RemoveLeadingSku(unbranded, sku.s)
                      ELSE unbranded
        slashed == StrReplace(unnumbered, <<" ", "/", " ">>, <<"/">>)
        hyphened == StrReplace(slashed, <<" ", "-", " ">>, <<"-">>)
        stripped == SelectSeq(hyphened, IsAllowed)
    IN  SplitWords(CollapseSpaces(stripped), <<>>, <<>>)

\* lines 112-118: the loop that fills `seen` and `unique_words`
RECURSIVE UniqueWordsCaseSensitive(_, _, _)
UniqueWordsCaseSensitive(words, seen, unique_words) ==
    IF words = <<>> THEN unique_words
    ELSE IF Head(words) \notin seen
      THEN UniqueWordsCaseSensitive(Tail(words), seen \cup {Head(words)},
                                    Append(unique_words, Head(words)))
    ELSE UniqueWordsCaseSensitive(Tail(words), seen, unique_words)

RECURSIVE UniqueWords(_, _, _)
UniqueWords(words, seen, unique_words) ==
    IF words = <<>> THEN unique_words
    ELSE LET word_lower == Lower(Head(words)) IN
         IF word_lower \notin seen
           THEN UniqueWords(Tail(words), seen \cup {word_lower},
                            Append(unique_words, Head(words)))
           ELSE UniqueWords(Tail(words), seen, unique_words)

\* text.strip()
RECURSIVE Strip(_)
Strip(text) ==
    IF text # <<>> /\ Head(text) = " " THEN Strip(Tail(text))
    ELSE IF text # <<>> /\ text[Len(text)] = " " THEN Strip(UpTo(text, Len(text) - 1))
    ELSE text

\* lines 94-120
SanitizeDescription(text, sku, brand) ==
    IF text = <<>> THEN <<>>
    ELSE Strip(Join(UniqueWords(SanitizeWords(text, sku, brand), {}, <<>>)))

\* sanitize_description(text, sku, brand), the helper nested in run
sanitize_description ==
    /\ op = "idle"
    /\ op' = "helper"
    /\ \E args \in SanitizeArgs :
         helper' = [pc |-> "done", fn |-> "sanitize_description", args |-> args,
                    words |-> IF args.text = <<>> THEN <<>>
                              ELSE SanitizeWords(args.text, args.sku, args.brand),
                    chars |-> SanitizeDescription(args.text, args.sku, args.brand)]
    /\ UNCHANGED <<gqlVars, sent, replies, upVars, sv, pf, pp, eng, mn>>

\* The helper has returned to run.
helper_return ==
    /\ op = "helper"
    /\ helper.pc = "done"
    /\ op' = "idle"
    /\ helper' = HelperIdle
    /\ UNCHANGED <<gqlVars, sent, replies, upVars, sv, pf, pp, eng, mn>>

\* The characters of the texts the listing's nodes carry.
Chars(s) ==
    CASE s = "VIZ-100" -> <<"V", "I", "Z", "-", "1", "0", "0">>
      [] s = "Acme" -> <<"A", "c", "m", "e">>
      [] s = "X100" -> <<"X", "1", "0", "0">>
      [] s = "X100-B" -> <<"X", "1", "0", "0", "-", "B">>
      [] s = "great widget" -> <<"g", "r", "e", "a", "t", " ", "w", "i", "d", "g", "e", "t">>
      [] s = "<p>great widget</p>" -> <<"<", "p", ">", "g", "r", "e", "a", "t", " ", "w", "i", "d", "g", "e", "t", "<", "/", "p", ">">>
      [] s = "" -> <<>>

OptChars(v) == IF v = None THEN NullText ELSE Text(Chars(v))

\* models.py line 103: re.sub(r'<[^>]+>', ' ', decoded)
RECURSIVE StripTags(_)
StripTags(text) ==
    IF text = <<>> THEN <<>>
    ELSE LET closing == { j \in 2..Len(text) : text[j] = ">" } IN
         IF Head(text) = "<" /\ closing # {} /\ 2 \notin closing
           THEN <<" ">> \o StripTags(Drop(text, CHOOSE j \in closing : \A k \in closing : j <= k))
           ELSE <<Head(text)>> \o StripTags(Tail(text))

\* models.py lines 97-106
GetPlainTextDescription(self) ==
    IF ~TextTruthy(self.description_medium) THEN <<>>
    ELSE Strip(CollapseSpaces(StripTags(HtmlUnescape(self.description_medium.s))))

\* `value or ''` as the csv writer puts it out, for a string and for a number
StrOrEmpty(v) == IF Truthy(v) THEN v ELSE ""
NumOrEmpty(v) == IF v # 0 THEN FloatStr(v) ELSE ""

\* lines 46-70
fieldnames ==
    <<"VENDOR PART#", "EAR part#", "New Invoice Description", "Old Invoice Description",
      "comment", "Cost", "retail", "web price", "Part# Prefix", "buyer/type", "Vendor#",
      "Descrip Vendor Name", "category", "Flag", "WAN LINK", "LAN LINK", "weight(lbs)",
      "MAP", "IMAGE", "CAP FILE", "caption text", "Sku", "UPC">>

\* lines 123-147: the row of the product p, a field per column
Row(p) ==
    LET texts == [brand_name |-> Chars(p.brand_name), model |-> OptChars(p.model),
                  vendor_part_number |-> Chars(p.vendor_part_number),
                  description_short |-> OptChars(p.description_short),
                  description_medium |-> OptChars(p.description_medium)]
        sku == Text(texts.vendor_part_number)
        brand == Text(texts.brand_name)
    IN  [vendor_part |-> p.vendor_part_number,
         ear_part |-> FormatEarPart(Chars(p.sku)),
         new_invoice_description |-> SanitizeDescription(ProductTitle(texts), sku, brand),
         old_invoice_description |->
             StrReplace(SanitizeDescription(GetPlainTextDescription(texts), sku, brand),
                        <<" ", "f", "o", "r", " ">>, <<" ">>),
         comment |-> "Pimcore asset: " \o p.id,
         cost |-> IF p.cost.null THEN "" ELSE NumOrEmpty(p.cost.v),
         retail |-> SelectedPrice(p),
         web_price |-> NumOrEmpty(p.web_price),
         part_prefix |-> StrOrEmpty(p.part_prefix),
         buyer_type |-> "COM",
         vendor_no |-> StrOrEmpty(p.part_prefix),
         descrip_vendor_name |-> p.brand_name,
         category |-> "950",
         flag |-> StrOrEmpty(p.upc),
         wan_link |-> StrOrEmpty(p.product_webpage),
         lan_link |-> "https://pimcore.ear.net/admin/login/deeplink?object_" \o p.id \o "_object",
         weight |-> IF p.weight.null THEN "" ELSE NumOrEmpty(p.weight.v),
         map |-> NumOrEmpty(p.map_price),
         image |-> "", cap_file |-> "", caption_text |-> "",
         sku |-> p.vendor_part_number,
         upc |-> StrOrEmpty(p.upc)]

\* What open(), writeheader() and writerow() meet: the write goes through, or
\* it raises (OSError).
WriteOutcomes == {"ok", "raises"}

\* lines 157-159: an exception of open(), writeheader() or writerow() is
\* logged and raised again
WriteFailsSwallowed(outcome) == FALSE

WriteFails(outcome) == outcome = "raises"

\* 0_main.py lines 187-192: the configuration the engine is given
Config(dry_run) ==
    [MAX_PRODUCTS |-> MaxNodes, DRY_RUN |-> dry_run,
     DELAY_BETWEEN_PRODUCTS |-> 2, DELAY_AFTER_IMAGE |-> 3]

EngIdle == [pc |-> "idle"]

\* line 31: `if not products`
NothingFetchedNever(products) == FALSE

NothingFetched(products) == products = <<>>

\* run(part_prefix), lines 23-44: the fetch, and the return when it brings
\* nothing.  `exists` tells whether the output file exists, `written` holds
\* what the writer has put out, `sleeps` every time.sleep of the run and
\* `attempts` what open() and each write met.
run ==
    /\ op = "idle"
    /\ op' = "run"
    /\ \E dry_run \in BOOLEAN, response \in FetchResponses :
         LET config == Config(dry_run)
             exception == FetchException(response)
             products == IF exception = "none" THEN FetchReturns(response) ELSE <<>>
         IN
         /\ Len(response.edges) <= config.MAX_PRODUCTS
         /\ eng' = [pc |-> IF ~(exception = "none" \/ FetchCatches(exception)) THEN "raised"
                           ELSE IF NothingFetched(products) THEN "done" ELSE "open",
                    config |-> config, products |-> products, total |-> Len(products),
                    exists |-> FALSE, written |-> <<>>, i |-> 0, sleeps |-> <<>>,
                    attempts |-> <<>>]
    /\ UNCHANGED <<gqlVars, sent, replies, upVars, sv, pf, pp, helper, mn>>

\* line 74: open(self.output_file, 'w')
run_open ==
    /\ op = "run"
    /\ eng.pc = "open"
    /\ \E outcome \in WriteOutcomes :
         eng' = IF ~WriteFails(outcome)
                  THEN [eng EXCEPT !.pc = "header", !.exists = TRUE,
                                   !.attempts = Append(@, outcome)]
                  ELSE [eng EXCEPT !.pc = "raised", !.attempts = Append(@, outcome)]
    /\ UNCHANGED <<op, gqlVars, sent, replies, upVars, sv, pf, pp, helper, mn>>

\* lines 75-78: writer.writeheader()
run_writeheader ==
    /\ op = "run"
    /\ eng.pc = "header"
    /\ \E outcome \in WriteOutcomes :
         eng' = IF ~WriteFails(outcome)
                  THEN [eng EXCEPT !.pc = "rows", !.i = 1,
                                   !.attempts = Append(@, outcome),
                                   !.written = Append(@, [kind |-> "header",
                                                          fieldnames |-> fieldnames])]
                  ELSE [eng EXCEPT !.pc = "raised", !.attempts = Append(@, outcome)]
    /\ UNCHANGED <<op, gqlVars, sent, replies, upVars, sv, pf, pp, helper, mn>>

\* lines 89-149: one iteration of `for i, p in enumerate(products, 1)`; after
\* the last one the file is closed and the export logged.
run_writerow ==
    /\ op = "run"
    /\ eng.pc = "rows"
    /\ \E outcome \in WriteOutcomes :
         LET p == eng.products[eng.i] IN
         eng' = IF ~WriteFails(outcome)
                  THEN [eng EXCEPT !.pc = IF eng.i = eng.total THEN "done" ELSE "rows",
                                   !.i = IF eng.i = eng.total THEN @ ELSE @ + 1,
                                   !.attempts = Append(@, outcome),
                                   !.written = Append(@, [kind |-> "row", id |-> p.id,
                                                          row |-> Row(p)])]
                  ELSE [eng EXCEPT !.pc = "raised", !.attempts = Append(@, outcome)]
    /\ UNCHANGED <<op, gqlVars, sent, replies, upVars, sv, pf, pp, helper, mn>>

\* run has returned, or the exception of a failed write has left it
\* (lines 157-159).
run_return ==
    /\ op = "run"
    /\ eng.pc \in {"done", "raised"}
    /\ op' = "idle"
    /\ eng' = EngIdle
    /\ UNCHANGED <<gqlVars, sent, replies, upVars, sv, pf, pp, helper, mn>>

----------------------------------------------------------------------------
(* 0_main.py: main *)

MainIdle == [pc |-> "idle"]

\* lines 39-46
RequiredVars ==
    {"PIMCORE_BASE_URL", "PIMCORE_ENDPOINT_NAME", "PIMCORE_API_KEY",
     "SHOPIFY_DOMAIN_MYSHOPIFY", "SHOPIFY_ADMIN_TOKEN", "SHOPIFY_API_VERSION"}

\* The required variables the environment leaves unset or empty: none, one of
\* the Pimcore ones, one of the storefront ones.
MissingSets == {{}, {"PIMCORE_API_KEY"}, {"SHOPIFY_ADMIN_TOKEN"}}

\* lines 31-36: --prefix absent, empty or given; --max at its default; the
\* three flags
PrefixArgs == {NullText, Text(<<>>), Text(<<"E", "A", "R">>)}

DefaultMax == 5

Args ==
    [prefix : PrefixArgs, max : {DefaultMax}, dry_run : BOOLEAN,
     test_no_filter : BOOLEAN, test_records_exist : BOOLEAN]

\* The branch main takes once the Pimcore client exists: lines 68, 150, 170
\* and 175, each of the first three ending in `return`.
ModeSyncFirst(args) ==
    IF TextTruthy(args.prefix) THEN "sync"
    ELSE IF args.test_records_exist THEN "test_records_exist"
    ELSE IF args.test_no_filter THEN "test_no_filter"
    ELSE "usage"

Mode(args) ==
    IF args.test_records_exist THEN "test_records_exist"
    ELSE IF args.test_no_filter THEN "test_no_filter"
    ELSE IF ~TextTruthy(args.prefix) THEN "usage"
    ELSE "sync"

\* sync_engine.py line 15: __init__(self, pimcore, config)
SyncEngineInitParams == 2

\* 0_main.py line 194: SyncEngine(pim_client, shop_client, config)
SyncEngineArgsPassed == 3

\* A call of a Python function with n positional arguments where it declares
\* params of them, none with a default: it binds, or raises TypeError.
Binds(n, params) == n = params

\* main(), lines 20-36: the environment is loaded and the arguments parsed
main ==
    /\ op = "idle"
    /\ op' = "main"
    /\ \E missing \in MissingSets, args \in Args :
         mn' = [pc |-> "validate", args |-> args, missing |-> missing,
                built |-> {}, calls |-> <<>>, runs |-> <<>>, raised |-> "none"]
    /\ UNCHANGED <<gqlVars, sent, replies, upVars, sv, pf, pp, helper, eng>>

\* lines 38-65: the required variables are validated, then the Pimcore client
\* is constructed
main_validate ==
    /\ op = "main"
    /\ mn.pc = "validate"
    /\ mn' = IF mn.missing \cap RequiredVars # {}
               THEN [mn EXCEPT !.pc = "raised", !.raised = "ValueError"]
               ELSE [mn EXCEPT !.pc = "mode", !.built = @ \cup {"PimcoreClient"}]
    /\ UNCHANGED <<op, gqlVars, sent, replies, upVars, sv, pf, pp, helper, eng>>

\* lines 68-147: --test-records-exist
main_test_records_exist ==
    /\ op = "main"
    /\ mn.pc = "mode"
    /\ Mode(mn.args) = "test_records_exist"
    /\ mn' = [mn EXCEPT !.pc = "done",
                        !.calls = @ \o <<"pim_client.fetch_all_products",
                                         "pim_client.session.post",
                                         "pim_client.session.post">>]
    /\ UNCHANGED <<op, gqlVars, sent, replies, upVars, sv, pf, pp, helper, eng>>

\* lines 150-167: --test-no-filter
main_test_no_filter ==
    /\ op = "main"
    /\ mn.pc = "mode"
    /\ Mode(mn.args) = "test_no_filter"
    /\ mn' = [mn EXCEPT !.pc = "done",
                        !.calls = Append(@, "pim_client.fetch_all_products")]
    /\ UNCHANGED <<op, gqlVars, sent, replies, upVars, sv, pf, pp, helper, eng>>

\* lines 170-173: no --prefix and no diagnostic mode
main_usage ==
    /\ op = "main"
    /\ mn.pc = "mode"
    /\ Mode(mn.args) = "usage"
    /\ mn' = [mn EXCEPT !.pc = "done"]
    /\ UNCHANGED <<op, gqlVars, sent, replies, upVars, sv, pf, pp, helper, eng>>

\* lines 175-195: the storefront client, the configuration, the engine and
\* its run
main_sync ==
    /\ op = "main"
    /\ mn.pc = "mode"
    /\ Mode(mn.args) = "sync"
    /\ mn' = IF Binds(SyncEngineArgsPassed, SyncEngineInitParams)
               THEN [mn EXCEPT !.pc = "done",
                               !.built = @ \cup {"ShopifyClient", "SyncEngine"},
                               !.calls = Append(@, "engine.run"),
                               !.runs = Append(@, mn.args.prefix)]
               ELSE [mn EXCEPT !.pc = "raised",
                               !.built = @ \cup {"ShopifyClient"},
                               !.raised = "TypeError"]
    /\ UNCHANGED <<op, gqlVars, sent, replies, upVars, sv, pf, pp, helper, eng>>

\* main has returned, or an exception has left it.
main_return ==
    /\ op = "main"
    /\ mn.pc \in {"done", "raised"}
    /\ op' = "idle"
    /\ mn' = MainIdle
    /\ UNCHANGED <<gqlVars, sent, replies, upVars, sv, pf, pp, helper, eng>>

----------------------------------------------------------------------------
(* Specifications *)

Init ==
    /\ op = "idle"
    /\ gqlPc = "idle"
    /\ gqlCall = [kind |-> "none"]
    /\ gqlAttempt = 0
    /\ gqlReqs = <<>>
    /\ gqlWaits = <<>>
    /\ gqlResult = NoPayload
    /\ sent = <<>>
    /\ replies = <<>>
    /\ upPc = "idle"
    /\ product_data = [handle |-> "", id |-> NoId]
    /\ upCreate = NoCreate
    /\ upGid = None
    /\ upResult = None
    /\ sv = SvIdle
    /\ pf = PfIdle
    /\ pp = PpIdle
    /\ helper = HelperIdle
    /\ eng = EngIdle
    /\ mn = MainIdle

NextGql ==
    \/ graphql_call
    \/ execute_graphql_response
    \/ execute_graphql_failure
    \/ graphql_return

SpecGql == Init /\ [][NextGql]_vars

\* The loop body always runs to its end: nothing but the process's own
\* termination stops an iteration.
SpecGqlFair ==
    /\ SpecGql
    /\ WF_vars(execute_graphql_response \/ execute_graphql_failure)

NextUpsert ==
    \/ upsert_product
    \/ execute_graphql_response
    \/ execute_graphql_failure
    \/ upsert_after_create
    \/ upsert_after_lookup
    \/ upsert_after_update
    \/ upsert_return

SpecUpsert == Init /\ [][NextUpsert]_vars

NextVariant ==
    \/ sync_variant
    \/ execute_graphql_response
    \/ execute_graphql_failure
    \/ sync_variant_own
    \/ sync_variant_search
    \/ sync_variant_check
    \/ sync_variant_existing_google
    \/ sync_variant_existing_mpn
    \/ sync_variant_set_google
    \/ sync_variant_set_mpn
    \/ sync_variant_return

SpecVariant == Init /\ [][NextVariant]_vars

NextFetch ==
    \/ fetch_products
    \/ fetch_products_return

SpecFetch == Init /\ [][NextFetch]_vars

NextRecord ==
    \/ effective_web_price
    \/ selected_price
    \/ product_title
    \/ get_sanitized_html
    \/ record_return

SpecRecord == Init /\ [][NextRecord]_vars

NextHelper ==
    \/ format_ear_part
    \/ sanitize_description
    \/ helper_return

SpecHelper == Init /\ [][NextHelper]_vars

NextRun ==
    \/ run
    \/ run_open
    \/ run_writeheader
    \/ run_writerow
    \/ run_return

SpecRun == Init /\ [][NextRun]_vars

NextMain ==
    \/ main
    \/ main_validate
    \/ main_test_records_exist
    \/ main_test_no_filter
    \/ main_usage
    \/ main_sync
    \/ main_return

SpecMain == Init /\ [][NextMain]_vars

Next ==
    \/ graphql_call
    \/ graphql_return
    \/ upsert_product
    \/ execute_graphql_response
    \/ execute_graphql_failure
    \/ upsert_after_create
    \/ upsert_after_lookup
    \/ upsert_after_update
    \/ upsert_return
    \/ sync_variant
    \/ sync_variant_own
    \/ sync_variant_search
    \/ sync_variant_check
    \/ sync_variant_existing_google
    \/ sync_variant_existing_mpn
    \/ sync_variant_set_google
    \/ sync_variant_set_mpn
    \/ sync_variant_return
    \/ fetch_products
    \/ fetch_products_return
    \/ effective_web_price
    \/ selected_price
    \/ product_title
    \/ get_sanitized_html
    \/ record_return
    \/ format_ear_part
    \/ sanitize_description
    \/ helper_return
    \/ run
    \/ run_open
    \/ run_writeheader
    \/ run_writerow
    \/ run_return
    \/ main
    \/ main_validate
    \/ main_test_records_exist
    \/ main_test_no_filter
    \/ main_usage
    \/ main_sync
    \/ main_return

Spec == Init /\ [][Next]_vars

----------------------------------------------------------------------------
(* Properties of execute_graphql *)

\* The k-th request of the call in progress was answered with a document
\* carrying a THROTTLED error code.
ThrottledAt(k) ==
    /\ k <= Len(gqlReqs)
    /\ gqlReqs[k].kind = "response"
    /\ \E i \in 1..Len(gqlReqs[k].data.errors) :
          gqlReqs[k].data.errors[i].code = "THROTTLED"

\* The k-th request of the call in progress raised RequestException.
FailedAt(k) ==
    /\ k <= Len(gqlReqs)
    /\ gqlReqs[k].kind = "failure"

\* C3: when the first three requests of a call are all answered with a
\* throttled response, the call has returned the payload whose message is
\* "Max retries exceeded", and it has sent exactly three requests.
C3_ThreeThrottlesExhaust ==
    (ThrottledAt(1) /\ ThrottledAt(2) /\ ThrottledAt(3)) =>
        /\ gqlPc = "returned"
        /\ Len(gqlReqs) = 3
        /\ gqlResult.errorsKey
        /\ Len(gqlResult.errors) = 1
        /\ gqlResult.errors[1].message = "Max retries exceeded"

C3_Witness ==
    /\ ThrottledAt(1) /\ ThrottledAt(2) /\ ThrottledAt(3)
    /\ gqlPc = "returned"

\* The payloads a call may return: a document the server sent, or one of the
\* two explicit error payloads.
ReturnedPayloads ==
    Responses(gqlCall.kind) \cup {MaxRetriesPayload, RequestFailedPayload}

\* C4: whatever each request meets, a call sends at most three requests, what
\* it returns is a payload, and a call in progress always returns.
C4_BoundedAndTerminates ==
    /\ [](Len(gqlReqs) <= 3)
    /\ [](gqlPc = "returned" => gqlResult \in ReturnedPayloads)
    /\ (gqlPc = "running") ~> (gqlPc = "returned")

C4_Witness ==
    /\ gqlPc = "returned"
    /\ ThrottledAt(1)
    /\ FailedAt(2) /\ gqlReqs[2].error = "http401"
    /\ FailedAt(3) /\ gqlReqs[3].error = "conn"

AnsweredAt(k) ==
    /\ k <= Len(gqlReqs)
    /\ gqlReqs[k].kind = "response"
    /\ ~ThrottledAt(k)

\* C26: a further request is sent only directly after a throttled response or
\* a transport failure.  A response without a THROTTLED error code, with or
\* without other errors, is the last request of the call: the call has
\* returned that document unchanged, and has waited only after the requests
\* before it.
C26_RetryOnlyAfterThrottleOrFailure ==
    /\ \A k \in 1..(Len(gqlReqs) - 1) : ThrottledAt(k) \/ FailedAt(k)
    /\ \A k \in 1..Len(gqlReqs) :
          AnsweredAt(k) =>
             /\ k = Len(gqlReqs)
             /\ gqlPc = "returned"
             /\ gqlResult = gqlReqs[k].data
             /\ Len(gqlWaits) = k - 1

\* A throttled response, then a document with another GraphQL error: it is
\* returned after the one wait of the first attempt.
C26_Witness ==
    /\ gqlPc = "returned"
    /\ Len(gqlReqs) = 2
    /\ ThrottledAt(1)
    /\ AnsweredAt(2)
    /\ gqlReqs[2].data.errors = <<OtherErr>>
    /\ gqlResult = gqlReqs[2].data
    /\ gqlWaits = <<5>>

\* The message of the single error of the returned payload, "" when the
\* payload is of another shape.
ReturnedMessage ==
    IF gqlResult.errorsKey /\ Len(gqlResult.errors) = 1 /\ gqlResult.body = NullBody
      THEN gqlResult.errors[1].message
      ELSE ""

\* C27: over every sequence of throttled responses and transport failures
\* that uses all three attempts, the call returns "Max retries exceeded"
\* exactly when the third attempt was throttled and a "Request failed"
\* payload exactly when the third attempt was a transport failure, whatever
\* the first two attempts met.
C27_ThirdAttemptDecides ==
    (/\ gqlPc = "returned"
     /\ Len(gqlReqs) = 3
     /\ \A k \in 1..3 : ThrottledAt(k) \/ FailedAt(k)) =>
        /\ ThrottledAt(3) <=> ReturnedMessage = "Max retries exceeded"
        /\ FailedAt(3) <=> ReturnedMessage = "Request failed"
        /\ ThrottledAt(3) => gqlResult = MaxRetriesPayload
        /\ FailedAt(3) => gqlResult = RequestFailedPayload

\* Two transport failures and then a throttled response.
C27_Witness ==
    /\ gqlPc = "returned"
    /\ FailedAt(1) /\ FailedAt(2) /\ ThrottledAt(3)
    /\ gqlResult = MaxRetriesPayload
    /\ gqlWaits = <<2, 4, 15>>

----------------------------------------------------------------------------
(* Properties of upsert_product *)

\* The userErrors messages that contain "taken" when letter case is ignored.
TakenMessages == {MsgIsTaken, MsgTAKEN}

\* The create came back without a top-level error payload and with a
\* productCreate object.
CreateAnswered ==
    /\ Len(replies) >= 1
    /\ ~replies[1].errorsKey
    /\ replies[1].body.kind = "data"
    /\ ~replies[1].body.productCreate.isNull

\* The create reported a user error whose message contains "taken".
ConflictReported ==
    /\ CreateAnswered
    /\ \E i \in 1..Len(replies[1].body.productCreate.userErrors) :
          replies[1].body.productCreate.userErrors[i] \in TakenMessages

\* The identifier of the product the create returned, None when it returned
\* no product or a product without identifier.
CreatedId ==
    IF replies[1].body.productCreate.product \in Gids
      THEN replies[1].body.productCreate.product
      ELSE None

\* The lookup came back without a top-level error payload and with the
\* identifier of a product.
LookupFound ==
    /\ Len(replies) >= 2
    /\ ~replies[2].errorsKey
    /\ replies[2].body.kind = "data"
    /\ replies[2].body.productByHandle \in Gids

\* The lookup came back with a top-level error payload.
LookupFailed ==
    /\ Len(replies) >= 2
    /\ replies[2].errorsKey

\* The lookup came back without error payload and without identifier.
LookupEmpty ==
    /\ Len(replies) >= 2
    /\ ~replies[2].errorsKey
    /\ ~LookupFound

UpdateIssued == \E i \in 1..Len(sent) : sent[i].kind = "productUpdate"

\* The lookup by the caller's handle was issued, right after the create.
LookupIssued ==
    /\ Len(sent) >= 2
    /\ sent[2] = [kind |-> "productByHandle", h |-> sent[1].input.handle]

\* The update was issued right after the lookup, with the caller's fields and
\* the identifier the lookup found.
UpdateIssuedWithFoundId ==
    /\ Len(sent) = 3
    /\ sent[3] = [kind  |-> "productUpdate",
                  input |-> [handle |-> sent[1].input.handle,
                             id     |-> replies[2].body.productByHandle]]

\* C1 as stated: after a "taken" conflict and a lookup that found an
\* identifier, the update is issued with that identifier and upsert_product
\* returns that identifier.
C1_AsStated ==
    (upPc = "done" /\ ConflictReported /\ LookupFound) =>
        /\ UpdateIssuedWithFoundId
        /\ upResult = replies[2].body.productByHandle

\* C1, amended: a "taken" conflict (in any letter case) is followed by a lookup
\* by handle; when that lookup found an identifier the update is issued with
\* that identifier, and upsert_product returns that identifier unless the
\* update came back with a top-level error payload, when it returns None.
C1_ConflictLookupUpdate ==
    /\ ConflictReported => LookupIssued
    /\ (ConflictReported /\ LookupFound) => UpdateIssuedWithFoundId
    /\ (upPc = "done" /\ ConflictReported /\ LookupFound) =>
          upResult = IF replies[3].errorsKey
                       THEN None
                       ELSE replies[2].body.productByHandle

C1_Witness ==
    /\ upPc = "done"
    /\ ConflictReported
    /\ replies[1].body.productCreate.userErrors = <<MsgBlank, MsgTAKEN>>
    /\ LookupFound
    /\ ~replies[3].errorsKey
    /\ upResult = replies[2].body.productByHandle

\* The create did not come back with a usable productCreate object: a
\* top-level error payload, no data, or no productCreate.
C2_CreateFailed == Len(replies) >= 1 /\ ~CreateAnswered

\* The create reported user errors, none of them a conflict, and no product.
C2_CreateRejected ==
    /\ CreateAnswered /\ ~ConflictReported
    /\ replies[1].body.productCreate.userErrors # <<>>
    /\ replies[1].body.productCreate.product = None

\* The create returned no product identifier.
C2_CreateNoIdentifier ==
    /\ CreateAnswered
    /\ CreatedId = None

\* The create reported no conflict and returned no product identifier.
C2_CreateWithoutId ==
    /\ CreateAnswered /\ ~ConflictReported
    /\ CreatedId = None

C2_ReturnsNoneWithoutUpdate == upResult = None /\ ~UpdateIssued

\* C2 as stated: upsert_product returns None without issuing an update when
\* the create failed, was rejected or returned no identifier, when the lookup
\* after a conflict failed, and when the lookup after a conflict found nothing.
C2_AsStated ==
    (upPc = "done" /\ (\/ C2_CreateFailed
                       \/ C2_CreateRejected
                       \/ C2_CreateNoIdentifier
                       \/ (ConflictReported /\ LookupFailed)
                       \/ (ConflictReported /\ LookupEmpty))) =>
        C2_ReturnsNoneWithoutUpdate

\* C2, amended: as stated, except that a create without product identifier
\* gives None only when it reported no conflict, and that when the lookup
\* after a conflict found nothing the result is None only if the create
\* returned no product identifier; no update is issued in any of the cases.
C2_NullCases ==
    /\ (upPc = "done" /\ (\/ C2_CreateFailed
                          \/ C2_CreateRejected
                          \/ C2_CreateWithoutId
                          \/ (ConflictReported /\ LookupFailed)
                          \/ (ConflictReported /\ LookupEmpty /\ CreatedId = None))) =>
          C2_ReturnsNoneWithoutUpdate
    /\ (upPc = "done" /\ ConflictReported /\ LookupEmpty) =>
          (upResult = CreatedId /\ ~UpdateIssued)

C2_Witness ==
    /\ upPc = "done"
    /\ ConflictReported
    /\ LookupEmpty
    /\ CreatedId = None
    /\ upResult = None

\* The update came back and reports user errors: it was rejected.
UpdateRejected ==
    /\ Len(replies) = 3
    /\ ~replies[3].errorsKey
    /\ replies[3].body.kind = "data"
    /\ ~replies[3].body.productUpdate.isNull
    /\ replies[3].body.productUpdate.userErrors # <<>>

\* C28: once the update of the conflict path has come back, upsert_product
\* returns the identifier the lookup found whenever the update's payload has
\* no top-level errors, whether it reports user errors, no productUpdate
\* object or no data at all; it returns None exactly when the payload has
\* top-level errors.
C28_UpdateOutcomeIgnored ==
    (upPc = "done" /\ Len(replies) = 3) =>
        /\ ~replies[3].errorsKey => upResult = replies[2].body.productByHandle
        /\ upResult = None <=> replies[3].errorsKey
        /\ UpdateRejected => upResult \in Gids

\* The update was rejected with a user error and the identifier found by the
\* lookup is returned all the same.
C28_Witness ==
    /\ upPc = "done"
    /\ UpdateRejected
    /\ replies[3].body.productUpdate.userErrors = <<MsgBlank>>
    /\ upResult = "gid://shopify/Product/2"
    /\ replies[2].body.productByHandle = "gid://shopify/Product/2"

\* The kinds of the remote calls issued so far, in order.
SentKinds == [k \in 1..Len(sent) |-> sent[k].kind]

\* C29: upsert_product issues its remote calls in the order create, lookup,
\* update, at most one of each; the lookup only after a create that reported
\* a "taken" conflict, the update only after a lookup that returned an
\* identifier; and the caller's field dictionary is as passed unless the
\* update is issued, when it holds the found identifier as well.
C29_CallOrder ==
    op = "upsert" =>
        /\ SentKinds \in { <<"productCreate">>,
                           <<"productCreate", "productByHandle">>,
                           <<"productCreate", "productByHandle", "productUpdate">> }
        /\ Len(sent) >= 2 => ConflictReported
        /\ Len(sent) = 3 => LookupFound
        /\ product_data.handle = sent[1].input.handle
        /\ product_data.id = IF Len(sent) = 3
                               THEN replies[2].body.productByHandle
                               ELSE NoId
        /\ Len(sent) = 3 => sent[3].input = product_data

\* All three calls were issued and the dictionary holds the found identifier.
C29_Witness ==
    /\ op = "upsert"
    /\ upPc = "update"
    /\ SentKinds = <<"productCreate", "productByHandle", "productUpdate">>
    /\ product_data = [handle |-> "abc-100", id |-> "gid://shopify/Product/1"]

----------------------------------------------------------------------------
(* Properties of sync_variant *)

\* The metafieldsSet calls issued so far, in order.
SetCalls == SelectSeq(sent, LAMBDA c : c.kind = "metafieldsSet")

\* The calls that read or write annotations.
AnnotationCalls ==
    SelectSeq(sent, LAMBDA c : c.kind \in {"metafields", "products", "metafield", "metafieldsSet"})

\* C6 as stated: sync_variant returns the variant identifier or None and
\* never raises, whatever the variant fetch and the variant update meet.
C6_AsStated ==
    sv.pc = "done" =>
        /\ sv.raised = "no"
        /\ sv.result \in {None, "7001"}

\* C7: with an MPN and a successful variant update, sync_variant issues
\* exactly two annotation writes on the variant, the Google Shopping MPN first
\* and the generic MPN second, both with the MPN as value; without an MPN
\* (None or empty) it issues no annotation read or write.
C7_TwoMpnWrites ==
    /\ Len(SetCalls) <= 2
    /\ (sv.pc = "done" /\ sv.updated /\ sv.mpn \notin {None, ""}) =>
          /\ Len(SetCalls) = 2
          /\ SetCalls[1] = [kind |-> "metafieldsSet",
                            ownerId |-> "gid://shopify/ProductVariant/7001",
                            namespace |-> NsGoogleShopping, key |-> KeyMpn,
                            value |-> sv.mpn]
          /\ SetCalls[2].ownerId = "gid://shopify/ProductVariant/7001"
          /\ SetCalls[2].value = sv.mpn
          /\ SetCalls[2].namespace # NsGoogleShopping
    /\ (op = "variant" /\ sv.mpn \in {None, ""}) => AnnotationCalls = <<>>

C7_Witness ==
    /\ sv.pc = "done"
    /\ sv.updated
    /\ sv.mpn = "X100"
    /\ Len(SetCalls) = 2
    /\ SetCalls[2].namespace = NsCustom
    /\ SetCalls[2].key = KeyMPN

\* C8: once the variant update has succeeded, nothing that follows touches the
\* variant through REST again, and sync_variant returns the variant
\* identifier whatever the annotation reads and writes met.
C8_BestEffort ==
    /\ (op = "variant" /\ sv.updated) =>
          /\ Len(sent) >= 2
          /\ sent[2].kind = "PUT variant"
          /\ \A i \in 3..Len(sent) :
                sent[i].kind \in {"metafields", "products", "metafield", "metafieldsSet"}
    /\ (sv.pc = "done" /\ sv.updated) =>
          /\ sv.raised = "no"
          /\ sv.result = "7001"

C8_Witness ==
    /\ sv.pc = "done"
    /\ sv.updated
    /\ sv.mpn = "X100"
    /\ ~sv.google_success
    /\ ~sv.mpn_success
    /\ sv.mpn_info = NoInfo
    /\ gqlCall.kind = "metafieldsSet"
    /\ gqlResult = RequestFailedPayload
    /\ sv.result = "7001"

\* An annotation that is not a Google one and whose key contains "mpn".
NonGoogleMpn(mf) == HasMpnKey(mf) /\ ~HasGoogleNs(mf) /\ ~HasGoogleKey(mf)

\* The annotations of a list that are such.
NonGoogleMpnOf(metafields) ==
    { metafields[k] : k \in { j \in 1..Len(metafields) : NonGoogleMpn(metafields[j]) } }

\* The annotations of the variant itself are back and sync_variant goes on.
OwnAnswered == op = "variant" /\ sv.pc = "own" /\ sent' # sent

\* The annotations of a variant of the search are back and sync_variant goes on.
CheckAnswered == op = "variant" /\ sv.pc = "check" /\ sent' # sent

\* C24, as stated: the generic MPN is written under the namespace and key of
\* a non-Google annotation whose key contains "mpn" found on the variant
\* itself; failing that, of one found on another variant, never the variant
\* being synced; failing that, under custom.vendor_part.  Other variants are
\* searched only when the variant itself has none.
C24_AsStated ==
    /\ [](Len(SetCalls) = 2 =>
            /\ SetCalls[2].namespace =
                 (IF sv.mpn_info # NoInfo THEN sv.mpn_info.namespace ELSE NsCustom)
            /\ SetCalls[2].key =
                 (IF sv.mpn_info # NoInfo THEN sv.mpn_info.key ELSE KeyVendorPart))
    /\ [][OwnAnswered =>
            LET own == NonGoogleMpnOf(GetVariantMetafields(gqlResult)) IN
            IF own # {}
              THEN sv'.mpn_info \in own /\ sv'.pc # "search"
              ELSE sv'.mpn_info = NoInfo /\ sv'.pc = "search"]_vars
    /\ [][CheckAnswered =>
            LET other == NonGoogleMpnOf(GetVariantMetafields(gqlResult)) IN
            /\ gqlCall.ownerId # VariantGid(sv.v_id)
            /\ IF other # {} THEN sv'.mpn_info \in other
               ELSE sv'.mpn_info = NoInfo]_vars

\* C25: the Google Shopping MPN is always written under
\* mm-google-shopping.mpn.  Once sync_variant is past that write, the first
\* annotation write of the call is the one to mm-google-shopping.mpn, also
\* when the variant carries a Google MPN annotation under another namespace
\* or key, and no write goes to the place of that annotation because it was
\* discovered.
C25_GoogleTargetFixed ==
    (op = "variant" /\ sv.pc \in {"set_google", "set_mpn"}) =>
        /\ SetCalls # <<>>
        /\ SetCalls[1].namespace = NsGoogleShopping
        /\ SetCalls[1].key = KeyMpn
        /\ \A k \in 1..Len(SetCalls) :
             (sv.google_info # NoInfo
                /\ SetCalls[k].namespace = sv.google_info.namespace
                /\ SetCalls[k].key = sv.google_info.key)
             => k = 2 /\ sv.mpn_info = sv.google_info

\* The variant carries Google.mpn; the Google Shopping MPN went to
\* mm-google-shopping.mpn all the same.
C25_Witness ==
    /\ op = "variant"
    /\ sv.pc = "set_mpn"
    /\ sv.google_info = [namespace |-> NsGoogle, key |-> KeyMpn]
    /\ SetCalls[1].namespace = NsGoogleShopping
    /\ SetCalls[1].key = KeyMpn
    /\ SetCalls[1].value = "X100"

----------------------------------------------------------------------------
(* Properties of fetch_products *)

\* C9: when the request meets a network error, a non-success HTTP status, a
\* body that is not JSON or a document carrying GraphQL errors, fetch_products
\* returns the empty list and raises nothing.
C9_FailsSoft ==
    (/\ pf.pc = "done"
     /\ \/ pf.response.kind \in {"network", "status", "notjson"}
        \/ pf.response.errorsKey) =>
        /\ pf.products = <<>>
        /\ pf.raised = "no"

C9_Witness ==
    /\ pf.pc = "done"
    /\ pf.response.kind = "notjson"
    /\ pf.products = <<>>
    /\ pf.raised = "no"

\* The edges whose node the model accepts.
ValidNodes == {NodeFull, NodeSparse}

ValidEdge(e) == e.hasNode /\ e.node \in ValidNodes

\* The positions of the valid edges of a listing, in increasing order.
RECURSIVE ValidPositions(_, _)
ValidPositions(edges, i) ==
    IF i > Len(edges) THEN <<>>
    ELSE IF ValidEdge(edges[i])
      THEN <<i>> \o ValidPositions(edges, i + 1)
      ELSE ValidPositions(edges, i + 1)

\* C10: for a listing that came back without error, the result holds one
\* record per valid node, in the order of the nodes: the k-th record is the
\* one of the k-th valid node, whatever invalid nodes stand before it.
C10_SkipsInvalidOnly ==
    (/\ pf.pc = "done"
     /\ pf.response.kind = "json" /\ ~pf.response.errorsKey /\ pf.response.data) =>
        LET valid == ValidPositions(pf.response.edges, 1) IN
        /\ pf.raised = "no"
        /\ Len(pf.products) = Len(valid)
        /\ \A k \in 1..Len(valid) :
              /\ pf.products[k].id = ToString(valid[k])
              /\ pf.products[k].sku = pf.response.edges[valid[k]].node.sku
              /\ pf.products[k].brand_name = pf.response.edges[valid[k]].node.BrandName

C10_Witness ==
    /\ pf.pc = "done"
    /\ pf.response.kind = "json" /\ ~pf.response.errorsKey /\ pf.response.data
    /\ Len(pf.response.edges) = 3
    /\ pf.response.edges[1].node = NodeNoSku
    /\ ~pf.response.edges[2].hasNode
    /\ pf.response.edges[3].node = NodeSparse
    /\ Len(pf.products) = 1
    /\ pf.products[1].id = "3"

\* The source node of the k-th record fetch_products returned.
SourceNode(k) ==
    pf.response.edges[ValidPositions(pf.response.edges, 1)[k]].node

\* C11, as stated: every record fetch_products returns has every textual
\* optional field (model, universal code, short and medium description,
\* specifications, contents, category tag, prefix code, webpage URL) equal to
\* a string, never null.
C11_AsStated ==
    pf.pc = "done" =>
        \A k \in 1..Len(pf.products) :
            LET p == pf.products[k] IN
            /\ p.model # None
            /\ p.upc # None
            /\ p.description_short # None
            /\ p.description_medium # None
            /\ p.specifications_wysiwyg # None
            /\ p.whats_in_box # None
            /\ p.product_type_raw # None
            /\ p.part_prefix # None
            /\ p.product_webpage # None

\* C11, amended: every record fetch_products returns has the short
\* description, the medium description, the specifications and the contents
\* equal to a string, the empty one where the node carried null; the model,
\* the universal code and the prefix code are the node's values, null
\* included; the category tag and the webpage URL, which the query does not
\* ask for, are null.
C11_DescriptionsNeverNull ==
    pf.pc = "done" =>
        \A k \in 1..Len(pf.products) :
            LET p == pf.products[k]
                node == SourceNode(k)
                text(v) == IF v = None THEN "" ELSE v
            IN
            /\ p.description_short = text(node.Description_Short)
            /\ p.description_medium = text(node.Description_Medium)
            /\ p.specifications_wysiwyg = text(node.Specifications_WYSIWYG)
            /\ p.whats_in_box = text(node.WhatsInBox)
            /\ p.description_short # None /\ p.description_medium # None
            /\ p.specifications_wysiwyg # None /\ p.whats_in_box # None
            /\ p.model = node.Model
            /\ p.upc = node.upc
            /\ p.part_prefix = node.PartPrefix
            /\ p.product_type_raw = None
            /\ p.product_webpage = None

C11_Witness ==
    /\ pf.pc = "done"
    /\ Len(pf.products) = 1
    /\ SourceNode(1) = NodeSparse
    /\ pf.products[1].description_short = ""
    /\ pf.products[1].whats_in_box = ""
    /\ pf.products[1].model = None
    /\ pf.products[1].product_webpage = None

----------------------------------------------------------------------------
(* Properties of the PimcoreProduct transforms *)

Evaluated(method) == pp.pc = "done" /\ pp.method = method

\* C12, as stated: effective_web_price returns the retail price whenever the
\* web price is zero or absent (absent is the default, zero), and returns the
\* web price otherwise.
C12_AsStated ==
    Evaluated("effective_web_price") =>
        pp.value = IF pp.self.web_price = 0 THEN pp.self.retail_price
                    ELSE pp.self.web_price

\* C12, amended: effective_web_price returns the retail price whenever the web
\* price is zero, absent or negative, and returns the web price whenever it is
\* positive.
C12_EffectiveWebPrice ==
    Evaluated("effective_web_price") =>
        /\ pp.self.web_price <= 0 => pp.value = pp.self.retail_price
        /\ pp.self.web_price > 0 => pp.value = pp.self.web_price

C12_Witness ==
    /\ Evaluated("effective_web_price")
    /\ pp.self.web_price < 0
    /\ pp.self.retail_price = 300
    /\ pp.value = 300

\* The strictly positive values among the effective web price, MAP and retail
\* of the record evaluated.
PositiveOfRecord ==
    LET effective == IF pp.self.web_price > 0 THEN pp.self.web_price
                     ELSE pp.self.retail_price
    IN  { x \in {effective, pp.self.map_price, pp.self.retail_price} : x > 0 }

SetMin(S) == CHOOSE x \in S : \A y \in S : x <= y

\* C13: selected_price is the decimal string of the minimum of the strictly
\* positive values among {effective web price, MAP, retail}; it is "0.00"
\* exactly when none of them is positive; and it is the string of a value no
\* greater than any positive price of the record.
C13_SelectedPrice ==
    Evaluated("selected_price") =>
        /\ PositiveOfRecord # {} => pp.text = FloatStr(SetMin(PositiveOfRecord))
        /\ pp.text = "0.00" <=> PositiveOfRecord = {}
        /\ \A q \in {pp.self.web_price, pp.self.map_price, pp.self.retail_price} :
             q > 0 => \E c \in PriceValues : c > 0 /\ c <= q /\ pp.text = FloatStr(c)

C13_Witness ==
    /\ Evaluated("selected_price")
    /\ pp.self.web_price = 0
    /\ pp.self.map_price = 200
    /\ pp.self.retail_price = 300
    /\ pp.text = "2.0"

\* C14: product_title never returns a string longer than the maximum, for
\* every brand, model or vendor part number, and description.
C14_TitleWithinMaximum ==
    Evaluated("product_title") => Len(pp.chars) <= TITLE_MAX

\* The description of the record evaluated does not fit in what the base
\* title and the reserve for " ..." leave of the maximum.
DescriptionDoesNotFit ==
    /\ Len(BaseTitle(pp.self)) < TITLE_MAX
    /\ TextTruthy(pp.self.description_short)
    /\ Len(pp.self.description_short.s) > TITLE_MAX - Len(BaseTitle(pp.self)) - 4

\* The description was truncated and the title has exactly the maximum length.
C14_Witness ==
    /\ Evaluated("product_title")
    /\ DescriptionDoesNotFit
    /\ Len(pp.chars) = TITLE_MAX
    /\ pp.chars[TITLE_MAX] = "."

\* Cutting text after its k-th character cuts it between two words.
WordBoundary(text, k) ==
    k = 0 \/ k = Len(text) \/ text[k] = " " \/ text[k + 1] = " "

\* C15, as stated: whenever the base title is shorter than the maximum and
\* the description does not fit in the remaining space, the description is
\* cut at a word boundary of the original description and the returned title
\* ends with an ellipsis.
C15_AsStated ==
    Evaluated("product_title") /\ DescriptionDoesNotFit =>
        \E k \in 0..Len(pp.self.description_short.s) :
            /\ WordBoundary(pp.self.description_short.s, k)
            /\ pp.chars = BaseTitle(pp.self) \o <<" ">>
                             \o SubSeq(pp.self.description_short.s, 1, k)
                             \o <<".", ".", ".">>

\* The positions of text where tag stands, in any letter case.
Occurrences(text, tag) ==
    { i \in 1..Len(text) :
        /\ i + Len(tag) - 1 <= Len(text)
        /\ \A j \in 1..Len(tag) : LowerChar(text[i + j - 1]) = tag[j] }

\* C16, as stated: the string get_sanitized_html returns contains no <h2> and
\* no </h2> tag, in any letter case.
C16_AsStated ==
    Evaluated("get_sanitized_html") =>
        /\ Occurrences(pp.chars, <<"<", "h", "2", ">">>) = {}
        /\ Occurrences(pp.chars, <<"<", "/", "h", "2", ">">>) = {}

\* The sections get_sanitized_html emits for the record evaluated.
SectionsEmitted ==
    (IF TextTruthy(pp.self.description_medium) THEN 1 ELSE 0)
    + (IF TextTruthy(pp.self.specifications_wysiwyg) THEN 1 ELSE 0)

\* C16, amended: get_sanitized_html emits no <h2> and no </h2> tag, in any
\* letter case, other than those of its own section labels: each non-empty
\* section opens with the label <h2>Description</h2> or <h2>Tech Specs</h2>,
\* and the returned string holds exactly one <h2> and one </h2> per emitted
\* section, each of them inside such a label.
C16_OnlyLabelHeadings ==
    Evaluated("get_sanitized_html") =>
        /\ Cardinality(Occurrences(pp.chars, <<"<", "h", "2", ">">>)) = SectionsEmitted
        /\ Cardinality(Occurrences(pp.chars, <<"<", "/", "h", "2", ">">>)) = SectionsEmitted
        /\ \A i \in Occurrences(pp.chars, <<"<", "h", "2", ">">>) :
             \/ StartsWith(Drop(pp.chars, i - 1), DescriptionLabel)
             \/ StartsWith(Drop(pp.chars, i - 1), TechSpecsLabel)

\* Upper-case headings in the description and an escaped one in the
\* specifications came out rewritten.
C16_Witness ==
    /\ Evaluated("get_sanitized_html")
    /\ pp.self.description_medium = Text(<<"<", "H", "2", ">">> \o <<"<", "/", "H", "2", ">">>)
    /\ pp.self.specifications_wysiwyg = Text(<<"&", "l", "t", ";", "H", "2", "&", "g", "t", ";">>)
    /\ pp.chars = DescriptionLabel \o <<"<", "h", "3", ">">> \o <<"<", "/", "h", "3", ">">> \o TechSpecsLabel \o <<"<", "h", "3", ">">>

----------------------------------------------------------------------------
(* Properties of SyncEngine.run and its helpers *)

Helped(fn) == helper.pc = "done" /\ helper.fn = fn

\* C17: format_ear_part returns a string of at most 20 characters for every
\* non-empty alphanumeric input, of any length.
C17_EarPartAtMost20 ==
    /\ Helped("format_ear_part")
    /\ helper.sku # <<>>
    /\ \A i \in 1..Len(helper.sku) : IsAlnum(helper.sku[i])
    => Len(helper.chars) <= 20

\* An alphanumeric code of more than 20 characters was spliced and cut to 20.
C17_Witness ==
    /\ Helped("format_ear_part")
    /\ Len(helper.sku) = 24
    /\ \A i \in 1..Len(helper.sku) : IsAlnum(helper.sku[i])
    /\ Len(helper.chars) = 20
    /\ helper.chars = <<"A", "B", "C", "-", "V", "W", "X", "G", "H", "I", "J", "K", "L", "M", "N", "O", "P", "Q", "R", "S">>

\* The positions of text where a word starts, and the word that starts there.
WordStarts(text) ==
    { i \in 1..Len(text) : text[i] # " " /\ (i = 1 \/ text[i - 1] = " ") }

WordFrom(text, i) ==
    LET end == CHOOSE j \in i..Len(text) :
                   /\ \A k \in i..j : text[k] # " "
                   /\ j = Len(text) \/ text[j + 1] = " "
    IN  SubSeq(text, i, end)

\* The k-th word of text.
KthWord(text, k) ==
    WordFrom(text, CHOOSE i \in WordStarts(text) :
                       Cardinality({ j \in WordStarts(text) : j < i }) = k - 1)

\* Where a word equal to w but for the letter case first stands in words.
FirstIndex(words, w) ==
    CHOOSE k \in 1..Len(words) :
        /\ Lower(words[k]) = Lower(w)
        /\ \A m \in 1..(k - 1) : Lower(words[m]) # Lower(w)

\* The description holds nothing the cleaning changes: no brand and no part
\* number to remove, no character to strip, no hyphen or slash.
PlainDescription ==
    /\ helper.args.sku.null
    /\ helper.args.brand.null
    /\ \A i \in 1..Len(helper.args.text) :
         IsAlnum(helper.args.text[i]) \/ helper.args.text[i] = " "

\* C18: the sanitized description holds no two words that are equal ignoring
\* case; each of its words is the first occurrence, in its original casing, of
\* a word of the cleaned description; its words stand in the order of those
\* first occurrences; every word of the cleaned description is kept in one
\* casing; and the cleaned description of a plain description has the
\* description's own words.
C18_DedupWords ==
    Helped("sanitize_description") =>
        LET out == helper.chars
            words == helper.words
        IN
        /\ \A i, j \in WordStarts(out) :
             i # j => Lower(WordFrom(out, i)) # Lower(WordFrom(out, j))
        /\ \A i \in WordStarts(out) :
             \E k \in 1..Len(words) :
                /\ words[k] = WordFrom(out, i)
                /\ \A m \in 1..(k - 1) : Lower(words[m]) # Lower(words[k])
        /\ \A i, j \in WordStarts(out) :
             i < j => FirstIndex(words, WordFrom(out, i)) < FirstIndex(words, WordFrom(out, j))
        /\ \A k \in 1..Len(words) :
             \E i \in WordStarts(out) : Lower(WordFrom(out, i)) = Lower(words[k])
        /\ PlainDescription =>
             /\ Len(words) = Cardinality(WordStarts(helper.args.text))
             /\ \A k \in 1..Len(words) : words[k] = KthWord(helper.args.text, k)

\* "cd ab AB": the second spelling of the repeated word is dropped.
C18_Witness ==
    /\ Helped("sanitize_description")
    /\ PlainDescription
    /\ helper.args.text = <<"c", "d", " ", "a", "b", " ", "A", "B">>
    /\ helper.chars = <<"c", "d", " ", "a", "b">>

\* What the writer has put out is the header and then the rows of the first
\* products fetched, one each, in the order of the fetch.
HeaderThenRowsInOrder ==
    /\ Len(eng.written) <= eng.total + 1
    /\ \A k \in 1..Len(eng.written) :
         IF k = 1 THEN eng.written[k].kind = "header"
         ELSE /\ eng.written[k].kind = "row"
              /\ eng.written[k].id = eng.products[k - 1].id
              /\ eng.written[k].row.vendor_part = eng.products[k - 1].vendor_part_number

\* C19: when the fetch returns at least one record, the header row is written
\* before any data row and then one row per fetched record, in fetch order:
\* at every point of the run the output is the header followed by the rows of
\* the first records, and when run returns it holds a row for every record;
\* when the fetch returns no record, run returns without writing a row or
\* creating the output file.
C19_HeaderThenRows ==
    eng.pc # "idle" =>
        /\ HeaderThenRowsInOrder
        /\ eng.pc = "done" /\ eng.total >= 1 =>
             eng.exists /\ Len(eng.written) = eng.total + 1
        /\ eng.total = 0 => eng.pc = "done" /\ ~eng.exists /\ eng.written = <<>>

\* Two records, from the first and the third node of the listing, were
\* exported after the header.
C19_Witness ==
    /\ eng.pc = "done"
    /\ eng.total = 2
    /\ Len(eng.written) = 3
    /\ eng.written[1].kind = "header"
    /\ eng.written[2].id = "1"
    /\ eng.written[3].id = "3"

\* C20, as stated: run sleeps the configured inter-record duration between
\* the emission of one record and the processing of the next, for every pair
\* of consecutive records.
C20_AsStated ==
    eng.pc # "idle" =>
        LET rows == SelectSeq(eng.written, LAMBDA w : w.kind = "row") IN
        Len(rows) >= 2 =>
            /\ Len(eng.sleeps) >= Len(rows) - 1
            /\ \A k \in 1..Len(eng.sleeps) :
                 eng.sleeps[k] = eng.config.DELAY_BETWEEN_PRODUCTS

\* C21, as stated: with the dry-run toggle of the configuration set, run
\* creates no file and writes no header and no row, whatever the fetch
\* returned.
C21_AsStated ==
    eng.pc # "idle" /\ eng.config.DRY_RUN => ~eng.exists /\ eng.written = <<>>

\* The attempts of the run that went through: open() and the writes.
Succeeded == SelectSeq(eng.attempts, LAMBDA o : o = "ok")

\* C22: a failure of open(), of writeheader() or of a writerow() is not
\* swallowed.  A failed attempt is the last attempt of the run and leaves
\* run raising; the file exists if open() went through and holds exactly the
\* header and rows written before the failure, one per write that went
\* through; and a run whose attempts all went through does not raise.
C22_WriteFailureRaises ==
    eng.pc # "idle" =>
        /\ \A k \in 1..Len(eng.attempts) :
             eng.attempts[k] = "raises" => k = Len(eng.attempts) /\ eng.pc = "raised"
        /\ eng.pc = "raised" =>
             eng.attempts # <<>> /\ eng.attempts[Len(eng.attempts)] = "raises"
        /\ eng.exists <=> Succeeded # <<>>
        /\ Len(eng.written) = IF Succeeded = <<>> THEN 0 ELSE Len(Succeeded) - 1
        /\ HeaderThenRowsInOrder

\* The second of three rows failed: run raises with the header and the first
\* row in the file.
C22_Witness ==
    /\ eng.pc = "raised"
    /\ eng.total = 3
    /\ eng.attempts = <<"ok", "ok", "ok", "raises">>
    /\ Len(eng.written) = 2
    /\ eng.written[2].kind = "row"
    /\ eng.exists

----------------------------------------------------------------------------
(* Properties of main *)

\* main was given a diagnostic flag.
Diagnostic == mn.args.test_records_exist \/ mn.args.test_no_filter

\* C23: when --test-records-exist or --test-no-filter is given, main never
\* constructs the storefront client or the engine and never calls run,
\* whether or not a filter value is given; and without a filter value and
\* without a diagnostic mode, run is never called.
C23_DiagnosticsBypassSync ==
    mn.pc # "idle" =>
        /\ Diagnostic =>
             /\ "ShopifyClient" \notin mn.built
             /\ "SyncEngine" \notin mn.built
             /\ mn.runs = <<>>
             /\ \A k \in 1..Len(mn.calls) : mn.calls[k] # "engine.run"
        /\ ~Diagnostic /\ ~TextTruthy(mn.args.prefix) => mn.runs = <<>>

\* --test-no-filter together with a filter value: main has returned after
\* the unfiltered fetch, with the Pimcore client alone.
C23_Witness ==
    /\ mn.pc = "done"
    /\ mn.args.test_no_filter
    /\ ~mn.args.test_records_exist
    /\ TextTruthy(mn.args.prefix)
    /\ mn.built = {"PimcoreClient"}
    /\ mn.calls = <<"pim_client.fetch_all_products">>

\* C30, as stated: with every required variable set, a filter value given
\* and no diagnostic flag, main constructs the engine without an exception
\* and has called run exactly once, with the filter value, when it ends.
C30_AsStated ==
    /\ mn.pc \in {"done", "raised"}
    /\ mn.missing = {}
    /\ ~Diagnostic
    /\ TextTruthy(mn.args.prefix)
    => /\ mn.raised = "none"
       /\ "SyncEngine" \in mn.built
       /\ mn.runs = <<mn.args.prefix>>

====
